---- MODULE Spec2Model ----
(***************************************************************************)
(* AirGrist migration engine (src/lib/migration.ts, src/lib/grist.ts) and  *)
(* the wizard that drives it (Index.tsx).                                  *)
(*                                                                         *)
(* migrateTables and migrateTable are async functions; each is modelled    *)
(* as a sequential process whose steps end at an awaited service call.     *)
(* The source and destination services are the environment: every awaited  *)
(* call is issued by one action and settled (resolved or rejected) by      *)
(* another, the response being chosen nondeterministically.                *)
(*                                                                         *)
(* JavaScript values are tagged records [jstype, val]; an Error object     *)
(* carries an identity, so that "the same error" can be told from an equal *)
(* copy.                                                                   *)
(***************************************************************************)
EXTENDS Integers, Sequences, FiniteSets, TLC

VARIABLES
    source,             \* config.source: [baseId, tableIds]
    destination,        \* config.destination: [workspaceId, documentName]
    onProgress,         \* TRUE iff config.onProgress is supplied
    pc,                 \* position of migrateTables ("none": not called)
    documentId,         \* const documentId (line 125)
    gristTables,        \* const gristTables (line 131)
    gristTableMappings, \* const gristTableMappings (line 132)
    tableSchemas,       \* const tableSchemas (line 133), keyed by source table id
    k,                  \* position of the for-of loop over source.tableIds (line 143)
    createdTableIds,    \* const createdTableIds (line 164)
    i,                  \* loop variable of the migration loop (line 170), 1-based
    errors,             \* const errors (line 113)
    tableIds,           \* const tableIds (line 114)
    outcome,            \* the promise returned by migrateTables
    mt,                 \* frame of the running migrateTable call
    mt_pc,              \* position of migrateTable
    mt_outcome,         \* the promise returned by migrateTable
    log,                \* history: progress events, service calls, settlements
    outstanding,        \* history: service calls issued and not yet settled
    nextErr,            \* allocator of Error object identities
    fn,                 \* the exported pure function called ("none": not yet)
    fnArgs,             \* its arguments
    fnRet,              \* what it returned
    suspended,          \* the other run of migrateTables, while this one
                        \* executes ([pc |-> "none"]: there is none)
    wizard,             \* state of the Index component (useState, 291-311)
    wizardLog           \* history: the calls of handleStartMigration that
                        \* have finished

(* A direct call of one of the exported pure functions. *)
fnVars == <<fn, fnArgs, fnRet>>

(* The wizard and its history. *)
wizardVars == <<wizard, wizardLog>>

vars == <<source, destination, onProgress, pc, documentId, gristTables,
          gristTableMappings, tableSchemas, k, createdTableIds, i, errors,
          tableIds, outcome, mt, mt_pc, mt_outcome, log, outstanding, nextErr,
          fnVars, suspended, wizardVars>>

runVars == <<source, destination, onProgress, pc, documentId, gristTables,
             gristTableMappings, tableSchemas, k, createdTableIds, i, errors,
             tableIds, outcome>>

-----------------------------------------------------------------------------
(* Bounds of the model *)

MaxTables == 3
MaxRecords == 201
MaxElems == 2
MaxFields == 3

(* const batchSize = 100 *)
batchSize == 100

-----------------------------------------------------------------------------
(* JavaScript values *)

Str(s) == [jstype |-> "string", val |-> s]
Num(n) == [jstype |-> "number", val |-> n]
Bool(b) == [jstype |-> "boolean", val |-> b]
Arr(a) == [jstype |-> "array", val |-> a]
Null == [jstype |-> "null"]
Undefined == [jstype |-> "undefined"]
Object == [jstype |-> "object"]
Function(name) == [jstype |-> "function", name |-> name]

(* Properties every object literal inherits from Object.prototype (three of
   them): a mapping object answers these names although it has no such key.
   __proto__ is an accessor: read, it yields the prototype object. *)
ObjectPrototype == {"constructor", "toString", "__proto__"}

(* object[key] on a mapping object: the own property, else the inherited
   one, else undefined. *)
Get(object, key) ==
    IF key \in DOMAIN object THEN Str(object[key])
    ELSE IF key \in ObjectPrototype
         THEN IF key = "__proto__" THEN Object ELSE Function(key)
         ELSE Undefined

(* object[key] = value on a mapping object, value a string: an own property
   is written, except that the inherited __proto__ setter ignores a value
   that is no object. *)
Put(object, key, value) ==
    IF key = "__proto__" THEN object ELSE (key :> value) @@ object

(* The truth value of a value in a condition. *)
Truthy(value) ==
    CASE value.jstype = "string" -> value.val # ""
      [] value.jstype = "number" -> value.val # 0
      [] value.jstype = "boolean" -> value.val
      [] value.jstype \in {"undefined", "null"} -> FALSE
      [] OTHER -> TRUE

(* String(f) of a built-in function. *)
NativeCode(name) ==
    CASE name = "constructor" -> "function Object() { [native code] }"
      [] name = "toString" -> "function toString() { [native code] }"

(* The property key a value is converted to in object[value] = ... *)
ToPropertyKey(value) ==
    CASE value.jstype = "string" -> value.val
      [] value.jstype = "undefined" -> "undefined"
      [] value.jstype = "function" -> NativeCode(value.name)
      [] value.jstype = "object" -> "[object Object]"

(* Thrown values.  An Error object has an identity (id); any other thrown
   value is represented by its string (msg). *)
ErrorObject(id, msg) == [jstype |-> "Error", id |-> id, msg |-> msg]
NoError == [jstype |-> "undefined", id |-> 0, msg |-> ""]

(* What a rejected service call rejects with.  The service methods rethrow
   what fetch, response.json() or handleResponse threw (grist.ts 83-93 and
   the catch blocks, e.g. 113-116): always a newly created Error object. *)
Rejections(op) == {ErrorObject(nextErr, op)}

(* Error identities consumed by a rejection. *)
Allocated(v) == IF v.jstype = "Error" /\ v.id = nextErr THEN 1 ELSE 0

(* error instanceof Error ? error : new Error(String(error)) *)
ToError_AlwaysWraps(error, fresh) == ErrorObject(fresh, error.msg)

ToError(error, fresh) ==
    IF error.jstype = "Error" THEN error ELSE ErrorObject(fresh, error.msg)

(* Number of Error objects "new Error(...)" creates there. *)
Wraps(error) == IF error.jstype = "Error" THEN 0 ELSE 1

-----------------------------------------------------------------------------
(* grist.ts: schema translation *)

KnownTypes ==
    {"singleLineText", "multilineText", "richText", "email", "url",
     "phoneNumber", "number", "currency", "percent", "date", "dateTime",
     "checkbox", "singleSelect", "multipleSelects", "formula", "attachment",
     "autoNumber", "barcode", "button", "collaborator", "count", "createdBy",
     "createdTime", "duration", "lastModifiedBy", "lastModifiedTime",
     "lookup", "rating", "rollup"}

typeMapping(t) ==
    CASE t \in {"singleLineText", "multilineText", "richText", "email", "url",
                "phoneNumber", "formula", "attachment", "barcode", "button",
                "collaborator", "createdBy", "lastModifiedBy", "lookup",
                "rollup"} -> "Text"
      [] t \in {"number", "currency", "percent", "duration"} -> "Numeric"
      [] t \in {"autoNumber", "count", "rating"} -> "Int"
      [] t = "date" -> "Date"
      [] t \in {"dateTime", "createdTime", "lastModifiedTime"} -> "DateTime"
      [] t = "checkbox" -> "Bool"
      [] t = "singleSelect" -> "Choice"
      [] t = "multipleSelects" -> "ChoiceList"

(* enum GristFieldType *)
GristFieldType ==
    {"Text", "Numeric", "Int", "Date", "DateTime", "Bool", "Choice",
     "ChoiceList"}

(* typeMapping[airtableField.type] || GristFieldType.TEXT: the table is an
   object literal, read with Get. *)
LookupType(type) ==
    LET found == Get([t \in KnownTypes |-> typeMapping(t)], type)
    IN  IF Truthy(found)
        THEN IF found.jstype = "string" THEN found.val ELSE found
        ELSE "Text"

(* A translation that leaves the widget options out. *)
airtableToGristFieldType_NoChoices(airtableField) ==
    <<LookupType(airtableField.type), Null>>

(* Returns <<gristType, widgetOptions>>; widgetOptions is Null or
   [choices |-> names]. *)
airtableToGristFieldType(airtableField) ==
    LET gristType == LookupType(airtableField.type)
    IN  IF gristType \in GristFieldType /\ gristType = "ChoiceList"
        THEN <<gristType,
               [choices |-> [c \in DOMAIN airtableField.options.choices |->
                               airtableField.options.choices[c].name]]>>
        ELSE <<gristType, Null>>

(* JSON.stringify(widgetOptions) *)
JSONstringify(v) == [json |-> v]

(* A column identified by the display name of its field. *)
GristColumn_IdFromName(airtableField) ==
    LET r == airtableToGristFieldType(airtableField)
    IN  [id |-> airtableField.name,
         fields |-> [label |-> airtableField.name,
                     type |-> r[1],
                     widgetOptions |-> IF r[2] = Null THEN Undefined
                                       ELSE JSONstringify(r[2])]]

(* Lines 321-336: the column built for one field. *)
GristColumn(airtableField) ==
    LET r == airtableToGristFieldType(airtableField)
    IN  [id |-> airtableField.id,
         fields |-> [label |-> airtableField.name,
                     type |-> r[1],
                     widgetOptions |-> IF r[2] = Null THEN Undefined
                                       ELSE JSONstringify(r[2])]]

(* The mapping object after the first n fields were visited:
   mapping[airtableField.name] = airtableField.id, later fields overwrite. *)
RECURSIVE MappingOf(_, _)
MappingOf(fields, n) ==
    IF n = 0 THEN <<>>
    ELSE Put(MappingOf(fields, n - 1), fields[n].name, fields[n].id)

(* Returns <<gristTable, mapping>>. *)
airtableToGristTable(airtableTable) ==
    <<[id |-> airtableTable.name,
       columns |-> [j \in DOMAIN airtableTable.fields |->
                      GristColumn(airtableTable.fields[j])]],
      MappingOf(airtableTable.fields, Len(airtableTable.fields))>>

-----------------------------------------------------------------------------
(* migration.ts: record transformation *)

(* if (gristTableMapping[field]) *)
Mapped(gristTableMapping, field) == Truthy(Get(gristTableMapping, field))

(* The arrays of length 1 tagged like every other array. *)
Coerce_NoUnwrap(value) ==
    IF value.jstype \in {"string", "number", "boolean"} THEN value
    ELSE IF value.jstype = "array"
         THEN Arr(<<Str("L")>> \o value.val)
         ELSE Null

(* Lines 91-101: the value written for a field. *)
Coerce(value) ==
    IF value.jstype \in {"string", "number", "boolean"} THEN value
    ELSE IF value.jstype = "array"
         THEN IF Len(value.val) = 1 THEN value.val[1]
              ELSE Arr(<<Str("L")>> \o value.val)
         ELSE Null

(* The result object: keyed by column id; when two mapped fields share a
   column id the one visited last wins (fields are visited in fieldOrder). *)
RECURSIVE TransformFields(_, _, _, _)
TransformFields(fields, fieldOrder, gristTableMapping, n) ==
    IF n = 0 THEN <<>>
    ELSE LET field == fieldOrder[n]
             rest == TransformFields(fields, fieldOrder, gristTableMapping, n - 1)
         IN  IF Mapped(gristTableMapping, field)
             THEN (ToPropertyKey(Get(gristTableMapping, field))
                     :> Coerce(fields[field])) @@ rest
             ELSE rest

airtableToGristRecord(airtableRecord, gristTableMapping) ==
    TransformFields(airtableRecord.fields, airtableRecord.fieldOrder,
                    gristTableMapping, Len(airtableRecord.fieldOrder))

-----------------------------------------------------------------------------
(* grist.ts: record transformation (lines 240-261) *)

(* The arrays passed on as they are, without the list marker. *)
grist_Coerce_NoMarker(value) ==
    IF value.jstype \in {"string", "number", "boolean", "array"} THEN value
    ELSE Null

(* Lines 249-254: every array is tagged, whatever its length. *)
grist_Coerce(value) ==
    IF value.jstype \in {"string", "number", "boolean"} THEN value
    ELSE IF value.jstype = "array"
         THEN Arr(<<Str("L")>> \o value.val)
         ELSE Null

(* Line 257: gristFields[gristTableMapping[field]] = result, for every field
   of the record. *)
RECURSIVE grist_TransformFields(_, _, _, _)
grist_TransformFields(fields, fieldOrder, gristTableMapping, n) ==
    IF n = 0 THEN <<>>
    ELSE LET field == fieldOrder[n]
             rest == grist_TransformFields(fields, fieldOrder,
                                           gristTableMapping, n - 1)
         IN  (ToPropertyKey(Get(gristTableMapping, field))
                :> grist_Coerce(fields[field])) @@ rest

grist_airtableToGristRecord(airtableRecord, gristTableMapping) ==
    grist_TransformFields(airtableRecord.fields, airtableRecord.fieldOrder,
                          gristTableMapping, Len(airtableRecord.fieldOrder))

-----------------------------------------------------------------------------
(* The environment: what the source base holds and what the services answer *)

Min(a, b) == IF a < b THEN a ELSE b

(* The fields of a source table; field ids are unique across the base. *)
Fields(tableId) ==
    <<[id |-> "fldNum" \o ToString(tableId), name |-> "Num",
       type |-> "number"],
      [id |-> "fldTags" \o ToString(tableId), name |-> "Tags",
       type |-> "multipleSelects",
       options |-> [choices |-> <<[name |-> "a"], [name |-> "b"]>>]]>>

(* A schema the source can answer for a table id; a table fetched a second
   time may have been renamed in between. *)
SchemaResponses(tableId) ==
    {[name |-> <<"Table", tableId>>, fields |-> Fields(tableId)]}
    \cup (IF tableId \in DOMAIN tableSchemas
          THEN {[name |-> <<"Renamed", tableId>>,
                 fields |-> Fields(tableId)]}
          ELSE {})

(* The j-th record of a source table: a number, a sequence of 0, 1 or 2
   strings, and a field that no schema field names. *)
AirtableRecord(j) ==
    [id |-> j,
     fields |-> [f \in {"Num", "Tags", "Extra"} |->
                   CASE f = "Num" -> Num(j)
                     [] f = "Tags" -> Arr(SubSeq(<<Str("a"), Str("b")>>, 1, j % 3))
                     [] f = "Extra" -> Str("x")],
     fieldOrder |-> <<"Num", "Tags", "Extra">>]

(* The record counts getAllRecords can answer with: any count up to
   MaxRecords when migrateTable is called directly; within a run of
   migrateTables an empty table, a single record, or one record more than a
   full batch. *)
RecordCounts ==
    IF pc = "none" THEN 0 .. MaxRecords ELSE {0, 1, batchSize + 1}

DestTableId(j) == <<"gristTable", j>>

(* source.tableIds of a run: distinct ids, or the first id selected twice. *)
Jobs ==
    {[j \in 1 .. n |-> j] : n \in 0 .. MaxTables}
    \cup {[j \in 1 .. n |-> IF j = n THEN 1 ELSE j] : n \in 2 .. MaxTables}

(* Mappings a direct caller of migrateTable passes. *)
DirectMappings ==
    {airtableToGristTable([name |-> <<"Table", 1>>,
                           fields |-> Fields(1)])[2],
     <<>>}

-----------------------------------------------------------------------------
(* History *)

totalTables == Len(source.tableIds)

ProgressEvent(status, currentTable, tableName, error) ==
    [kind |-> "event", status |-> status, currentTable |-> currentTable,
     totalTables |-> totalTables, tableName |-> tableName, error |-> error]

(* onProgress?.(event) *)
Emit(lg, event) == IF onProgress THEN Append(lg, event) ELSE lg

Issue(lg, op, args) == Append(lg, [kind |-> "call", op |-> op, args |-> args])

(* value: what the call resolved with (a record with one field, named after
   what the call returns), or the value it rejected with. *)
Settle(lg, op, ok, value) ==
    Append(lg, [kind |-> "settle", op |-> op, ok |-> ok, value |-> value])

Events == SelectSeq(log, LAMBDA e : e.kind = "event")
Calls == SelectSeq(log, LAMBDA e : e.kind = "call")

Pending == [state |-> "pending"]
Fulfilled(value) == [state |-> "fulfilled", value |-> value]
Rejected(reason) == [state |-> "rejected", reason |-> reason]

NoFrame ==
    [source |-> [baseId |-> "", tableId |-> 0],
     destination |-> [documentId |-> "", tableId |-> <<>>],
     mapping |-> <<>>, gristRecords |-> <<>>, i |-> 0]

-----------------------------------------------------------------------------
(* migrateTable (migration.ts 55-80) *)

(* The call of migrateTable up to its first await: getAllRecords is issued. *)
CallMigrateTable(config, lg) ==
    /\ mt' = [source |-> config.source, destination |-> config.destination,
              mapping |-> config.mapping, gristRecords |-> <<>>, i |-> 0]
    /\ mt_pc' = "getAllRecords"
    /\ mt_outcome' = Pending
    /\ log' = Issue(lg, "getAllRecords",
                    [baseId |-> config.source.baseId,
                     tableId |-> config.source.tableId])
    /\ outstanding' = outstanding + 1

(* getAllRecords resolves; an empty list returns at once (line 64), otherwise
   the records are transformed (66-68) and the batch loop starts at i = 0. *)
GetAllRecordsResolved ==
    /\ mt_pc = "getAllRecords"
    /\ \E n \in RecordCounts :
         LET airtableRecords == [j \in 1 .. n |-> AirtableRecord(j)]
         IN  /\ log' = Settle(log, "getAllRecords", TRUE, [count |-> n])
             /\ IF Len(airtableRecords) = 0
                THEN /\ mt_pc' = "returned"
                     /\ mt_outcome' = Fulfilled(Undefined)
                     /\ mt' = mt
                ELSE /\ mt_pc' = "batches"
                     /\ mt_outcome' = mt_outcome
                     /\ mt' = [mt EXCEPT
                                 !.gristRecords =
                                     [j \in 1 .. n |->
                                        airtableToGristRecord(
                                            airtableRecords[j], mt.mapping)],
                                 !.i = 0]
    /\ outstanding' = outstanding - 1
    /\ UNCHANGED <<fnVars, wizardVars, suspended, runVars, nextErr>>

(* A rejected await whose rejection is lost: migrateTable's promise is never
   settled. *)
MigrateTableThrows_NeverSettles(op, error) ==
    /\ mt_pc' = "threw"
    /\ mt_outcome' = Pending
    /\ log' = Settle(log, op, FALSE, error)
    /\ outstanding' = outstanding - 1
    /\ nextErr' = nextErr + Allocated(error)
    /\ UNCHANGED <<fnVars, wizardVars, suspended, runVars, mt>>

(* A rejected await inside migrateTable rejects migrateTable with the same
   value: the function has no try/catch. *)
MigrateTableThrows(op, error) ==
    /\ mt_pc' = "threw"
    /\ mt_outcome' = Rejected(error)
    /\ log' = Settle(log, op, FALSE, error)
    /\ outstanding' = outstanding - 1
    /\ nextErr' = nextErr + Allocated(error)
    /\ UNCHANGED <<fnVars, wizardVars, suspended, runVars, mt>>

GetAllRecordsRejected ==
    /\ mt_pc = "getAllRecords"
    /\ \E error \in Rejections("getAllRecords") :
         MigrateTableThrows("getAllRecords", error)

(* The slice one element short: slice(i, i + batchSize - 1). *)
Batch_OneShort(gristRecords, from) ==
    SubSeq(gristRecords, from + 1,
           Min(from + batchSize - 1, Len(gristRecords)))

(* gristRecords.slice(i, i + batchSize) *)
Batch(gristRecords, from) ==
    SubSeq(gristRecords, from + 1, Min(from + batchSize, Len(gristRecords)))

(* The insert issued without await: the loop goes on at once. *)
SendBatch_NoAwait ==
    /\ mt_pc = "batches"
    /\ mt.i < Len(mt.gristRecords)
    /\ log' = Issue(log, "addRecordsToTable",
                    [documentId |-> mt.destination.documentId,
                     tableId |-> mt.destination.tableId,
                     records |-> SubSeq(mt.gristRecords, mt.i + 1,
                                        Min(mt.i + batchSize,
                                            Len(mt.gristRecords)))])
    /\ outstanding' = outstanding + 1
    /\ mt' = [mt EXCEPT !.i = mt.i + batchSize]
    /\ UNCHANGED <<fnVars, wizardVars, suspended, runVars, mt_pc, mt_outcome,
                   nextErr>>

(* Loop test i < gristRecords.length holds: the next batch is sent (72-78). *)
SendBatch ==
    /\ mt_pc = "batches"
    /\ mt.i < Len(mt.gristRecords)
    /\ log' = Issue(log, "addRecordsToTable",
                    [documentId |-> mt.destination.documentId,
                     tableId |-> mt.destination.tableId,
                     records |-> Batch(mt.gristRecords, mt.i)])
    /\ outstanding' = outstanding + 1
    /\ mt_pc' = "addRecordsToTable"
    /\ UNCHANGED <<fnVars, wizardVars, suspended, runVars, mt, mt_outcome, nextErr>>

(* Loop test fails: migrateTable returns. *)
BatchesDone ==
    /\ mt_pc = "batches"
    /\ ~(mt.i < Len(mt.gristRecords))
    /\ mt_pc' = "returned"
    /\ mt_outcome' = Fulfilled(Undefined)
    /\ UNCHANGED <<fnVars, wizardVars, suspended, runVars, mt, log,
                   outstanding, nextErr>>

(* The awaited insert resolves: i += batchSize. *)
AddRecordsResolved ==
    /\ mt_pc = "addRecordsToTable"
    /\ mt' = [mt EXCEPT !.i = mt.i + batchSize]
    /\ mt_pc' = "batches"
    /\ log' = Settle(log, "addRecordsToTable", TRUE, Undefined)
    /\ outstanding' = outstanding - 1
    /\ UNCHANGED <<fnVars, wizardVars, suspended, runVars, mt_outcome, nextErr>>

(* A rejected insert caught inside the loop, which goes on with the next
   batch. *)
AddRecordsRejected_Continues ==
    /\ mt_pc = "addRecordsToTable"
    /\ \E error \in Rejections("addRecordsToTable") :
         /\ log' = Settle(log, "addRecordsToTable", FALSE, error)
         /\ nextErr' = nextErr + Allocated(error)
    /\ mt' = [mt EXCEPT !.i = mt.i + batchSize]
    /\ mt_pc' = "batches"
    /\ outstanding' = outstanding - 1
    /\ UNCHANGED <<fnVars, wizardVars, suspended, runVars, mt_outcome>>

AddRecordsRejected ==
    /\ mt_pc = "addRecordsToTable"
    /\ \E error \in Rejections("addRecordsToTable") :
         MigrateTableThrows("addRecordsToTable", error)

(* A direct call of migrateTable, as the tests make it. *)
MigrateTableDirect ==
    /\ pc = "none"
    /\ mt_pc = "idle"
    /\ CallMigrateTable(mt, log)
    /\ UNCHANGED <<fnVars, wizardVars, suspended, runVars, nextErr>>

MigrateTableStep ==
    \/ GetAllRecordsResolved
    \/ GetAllRecordsRejected
    \/ SendBatch
    \/ BatchesDone
    \/ AddRecordsResolved
    \/ AddRecordsRejected

-----------------------------------------------------------------------------
(* migrateTables (migration.ts 111-230) *)

(* The result built from the configured document name instead of the id
   createDocument returned. *)
MigrationResult_DocumentName ==
    [documentId |-> destination.documentName, tableIds |-> tableIds,
     errors |-> errors]

(* return { documentId, tableIds, errors } *)
MigrationResult == [documentId |-> documentId, tableIds |-> tableIds,
                    errors |-> errors]

(* The outer catch deleting the container it created before it rethrows. *)
Catch_Cleanup(error, lg) ==
    LET finalError == ToError(error, nextErr + Allocated(error))
    IN  /\ errors' = Append(errors, finalError)
        /\ log' = IF documentId = ""
                  THEN Emit(lg, ProgressEvent("error", 0, <<>>, finalError))
                  ELSE Issue(Emit(lg, ProgressEvent("error", 0, <<>>,
                                                    finalError)),
                             "deleteDocument", [documentId |-> documentId])
        /\ outcome' = Rejected(finalError)
        /\ pc' = "rejected"
        /\ nextErr' = nextErr + Allocated(error)
                           + (IF finalError = error THEN 0 ELSE 1)

(* The outer catch reporting a fresh Error in place of the one it throws. *)
Catch_ReportsCopy(error, lg) ==
    LET finalError == ToError(error, nextErr + Allocated(error))
        copy == ErrorObject(nextErr + Allocated(error) + 1, finalError.msg)
    IN  /\ errors' = Append(errors, finalError)
        /\ log' = Emit(lg, ProgressEvent("error", 0, <<>>, copy))
        /\ outcome' = Rejected(finalError)
        /\ pc' = "rejected"
        /\ nextErr' = nextErr + Allocated(error) + 2

(* The outer catch block (218-229), entered with the value a rejected setup
   call threw; lg is the history up to the rejection. *)
Catch(error, lg) ==
    LET finalError == ToError(error, nextErr + Allocated(error))
    IN  /\ errors' = Append(errors, finalError)
        /\ log' = Emit(lg, ProgressEvent("error", 0, <<>>, finalError))
        /\ outcome' = Rejected(finalError)
        /\ pc' = "rejected"
        /\ nextErr' = nextErr + Allocated(error)
                           + (IF finalError = error THEN 0 ELSE 1)

(* A setup call (createDocument, getTableSchema, addTablesToDocument) rejects:
   control passes to the outer catch. *)
SetupCallRejected(op) ==
    /\ pc = op
    /\ \E error \in Rejections(op) : Catch(error, Settle(log, op, FALSE, error))
    /\ outstanding' = outstanding - 1
    /\ UNCHANGED <<fnVars, wizardVars, suspended,
                   source, destination, onProgress, documentId, gristTables,
                   gristTableMappings, tableSchemas, k, createdTableIds, i,
                   tableIds, mt, mt_pc, mt_outcome>>

(* The first creating event reported after createDocument was issued. *)
Start_CallsFirst ==
    /\ pc = "start"
    /\ log' = Emit(Issue(log, "createDocument",
                         [workspaceId |-> destination.workspaceId,
                          documentName |-> destination.documentName]),
                   ProgressEvent("creating", 0, <<>>, NoError))
    /\ outstanding' = outstanding + 1
    /\ pc' = "createDocument"
    /\ UNCHANGED <<fnVars, wizardVars, suspended,
                   source, destination, onProgress, documentId, gristTables,
                   gristTableMappings, tableSchemas, k, createdTableIds, i,
                   errors, tableIds, outcome, mt, mt_pc, mt_outcome, nextErr>>

(* Lines 112-128: the first creating event, then createDocument is awaited. *)
Start ==
    /\ pc = "start"
    /\ log' = Issue(Emit(log, ProgressEvent("creating", 0, <<>>, NoError)),
                    "createDocument",
                    [workspaceId |-> destination.workspaceId,
                     documentName |-> destination.documentName])
    /\ outstanding' = outstanding + 1
    /\ pc' = "createDocument"
    /\ UNCHANGED <<fnVars, wizardVars, suspended,
                   source, destination, onProgress, documentId, gristTables,
                   gristTableMappings, tableSchemas, k, createdTableIds, i,
                   errors, tableIds, outcome, mt, mt_pc, mt_outcome, nextErr>>

(* Lines 125-140: documentId is bound, the fetching event is emitted. *)
CreateDocumentResolved ==
    /\ pc = "createDocument"
    /\ documentId' = "doc123"
    /\ gristTables' = <<>>
    /\ gristTableMappings' = <<>>
    /\ tableSchemas' = <<>>
    /\ log' = Emit(Settle(log, "createDocument", TRUE,
                          [documentId |-> "doc123"]),
                   ProgressEvent("fetching", 0, <<>>, NoError))
    /\ outstanding' = outstanding - 1
    /\ k' = 1
    /\ pc' = "fetchSchemas"
    /\ UNCHANGED <<fnVars, wizardVars, suspended,
                   source, destination, onProgress, createdTableIds, i, errors,
                   tableIds, outcome, mt, mt_pc, mt_outcome, nextErr>>

CreateDocumentRejected == SetupCallRejected("createDocument")

(* The schema loop walking source.tableIds from its end. *)
FetchNextSchema_Reversed ==
    /\ pc = "fetchSchemas"
    /\ k <= Len(source.tableIds)
    /\ log' = Issue(log, "getTableSchema",
                    [baseId |-> source.baseId,
                     tableId |-> source.tableIds[Len(source.tableIds) + 1 - k]])
    /\ outstanding' = outstanding + 1
    /\ pc' = "getTableSchema"
    /\ UNCHANGED <<fnVars, wizardVars, suspended,
                   source, destination, onProgress, documentId, gristTables,
                   gristTableMappings, tableSchemas, k, createdTableIds, i,
                   errors, tableIds, outcome, mt, mt_pc, mt_outcome, nextErr>>

(* Lines 143-147: the schema of the next source table is requested. *)
FetchNextSchema ==
    /\ pc = "fetchSchemas"
    /\ k <= Len(source.tableIds)
    /\ log' = Issue(log, "getTableSchema",
                    [baseId |-> source.baseId, tableId |-> source.tableIds[k]])
    /\ outstanding' = outstanding + 1
    /\ pc' = "getTableSchema"
    /\ UNCHANGED <<fnVars, wizardVars, suspended,
                   source, destination, onProgress, documentId, gristTables,
                   gristTableMappings, tableSchemas, k, createdTableIds, i,
                   errors, tableIds, outcome, mt, mt_pc, mt_outcome, nextErr>>

(* Lines 148-153: the schema is stored under its table id and translated. *)
GetTableSchemaResolved ==
    /\ pc = "getTableSchema"
    /\ \E tableSchema \in SchemaResponses(source.tableIds[k]) :
         LET translated == airtableToGristTable(tableSchema)
         IN  /\ tableSchemas' = (source.tableIds[k] :> tableSchema) @@ tableSchemas
             /\ gristTables' = Append(gristTables, translated[1])
             /\ gristTableMappings' = Append(gristTableMappings, translated[2])
             /\ log' = Settle(log, "getTableSchema", TRUE,
                              [tableSchema |-> tableSchema])
    /\ outstanding' = outstanding - 1
    /\ k' = k + 1
    /\ pc' = "fetchSchemas"
    /\ UNCHANGED <<fnVars, wizardVars, suspended, source, destination, onProgress,
                   documentId,
                   createdTableIds, i, errors, tableIds, outcome, mt, mt_pc,
                   mt_outcome, nextErr>>

(* A rejected schema fetch skipped instead of aborting the run. *)
GetTableSchemaRejected_Skips ==
    /\ pc = "getTableSchema"
    /\ \E error \in Rejections("getTableSchema") :
         /\ log' = Settle(log, "getTableSchema", FALSE, error)
         /\ nextErr' = nextErr + Allocated(error)
    /\ outstanding' = outstanding - 1
    /\ k' = k + 1
    /\ pc' = "fetchSchemas"
    /\ UNCHANGED <<fnVars, wizardVars, suspended,
                   source, destination, onProgress, documentId, gristTables,
                   gristTableMappings, tableSchemas, createdTableIds, i,
                   errors, tableIds, outcome, mt, mt_pc, mt_outcome>>

GetTableSchemaRejected == SetupCallRejected("getTableSchema")

(* Lines 156-167: the loop is over; the second creating event, then all
   translated tables are submitted in one call. *)
CreateTables ==
    /\ pc = "fetchSchemas"
    /\ k > Len(source.tableIds)
    /\ log' = Issue(Emit(log, ProgressEvent("creating", 0, <<>>, NoError)),
                    "addTablesToDocument",
                    [documentId |-> documentId, tables |-> gristTables])
    /\ outstanding' = outstanding + 1
    /\ pc' = "addTablesToDocument"
    /\ UNCHANGED <<fnVars, wizardVars, suspended,
                   source, destination, onProgress, documentId, gristTables,
                   gristTableMappings, tableSchemas, k, createdTableIds, i,
                   errors, tableIds, outcome, mt, mt_pc, mt_outcome, nextErr>>

(* Line 164: the destination answers one table id per submitted table. *)
AddTablesResolved ==
    /\ pc = "addTablesToDocument"
    /\ createdTableIds' = [j \in 1 .. Len(gristTables) |-> DestTableId(j)]
    /\ log' = Settle(log, "addTablesToDocument", TRUE,
                     [tableIds |-> createdTableIds'])
    /\ outstanding' = outstanding - 1
    /\ i' = 1
    /\ pc' = "migrating"
    /\ UNCHANGED <<fnVars, wizardVars, suspended,
                   source, destination, onProgress, documentId, gristTables,
                   gristTableMappings, tableSchemas, k, errors, tableIds,
                   outcome, mt, mt_pc, mt_outcome, nextErr>>

AddTablesRejected == SetupCallRejected("addTablesToDocument")

(* const tableName = tableSchemas[airtableTableId].name *)
tableName == tableSchemas[source.tableIds[i]].name

(* Every table transferred with the field mapping of the first. *)
MigrateNext_FirstMapping ==
    /\ pc = "migrating"
    /\ i <= Len(source.tableIds)
    /\ CallMigrateTable(
         [source |-> [baseId |-> source.baseId, tableId |-> source.tableIds[i]],
          destination |-> [documentId |-> documentId,
                           tableId |-> createdTableIds[i]],
          mapping |-> gristTableMappings[1]],
         Emit(log, ProgressEvent("migrating", i, tableName, NoError)))
    /\ pc' = "migrateTable"
    /\ UNCHANGED <<fnVars, wizardVars, suspended,
                   source, destination, onProgress, documentId, gristTables,
                   gristTableMappings, tableSchemas, k, createdTableIds, i,
                   errors, tableIds, outcome, nextErr>>

(* Lines 170-196: the migrating event of table i, then migrateTable is called
   and runs to its first await. *)
MigrateNext ==
    /\ pc = "migrating"
    /\ i <= Len(source.tableIds)
    /\ CallMigrateTable(
         [source |-> [baseId |-> source.baseId, tableId |-> source.tableIds[i]],
          destination |-> [documentId |-> documentId,
                           tableId |-> createdTableIds[i]],
          mapping |-> gristTableMappings[i]],
         Emit(log, ProgressEvent("migrating", i, tableName, NoError)))
    /\ pc' = "migrateTable"
    /\ UNCHANGED <<fnVars, wizardVars, suspended,
                   source, destination, onProgress, documentId, gristTables,
                   gristTableMappings, tableSchemas, k, createdTableIds, i,
                   errors, tableIds, outcome, nextErr>>

(* Line 197: migrateTable resolved. *)
TableMigrated ==
    /\ pc = "migrateTable"
    /\ mt_outcome.state = "fulfilled"
    /\ tableIds' = Append(tableIds, createdTableIds[i])
    /\ i' = i + 1
    /\ pc' = "migrating"
    /\ mt_pc' = "idle"
    /\ UNCHANGED <<fnVars, wizardVars, suspended,
                   source, destination, onProgress, documentId, gristTables,
                   gristTableMappings, tableSchemas, k, createdTableIds,
                   errors, outcome, mt, mt_outcome, log, outstanding, nextErr>>

(* The inner catch rethrowing: the failure reaches the outer catch. *)
TableFailed_Rethrows ==
    /\ pc = "migrateTable"
    /\ mt_outcome.state = "rejected"
    /\ Catch(mt_outcome.reason, log)
    /\ mt_pc' = "idle"
    /\ UNCHANGED <<fnVars, wizardVars, suspended,
                   source, destination, onProgress, documentId, gristTables,
                   gristTableMappings, tableSchemas, k, createdTableIds, i,
                   tableIds, mt, mt_outcome, outstanding>>

(* The inner catch swallowing the failure: nothing recorded, nothing emitted. *)
TableFailed_Swallows ==
    /\ pc = "migrateTable"
    /\ mt_outcome.state = "rejected"
    /\ i' = i + 1
    /\ pc' = "migrating"
    /\ mt_pc' = "idle"
    /\ UNCHANGED <<fnVars, wizardVars, suspended,
                   source, destination, onProgress, documentId, gristTables,
                   gristTableMappings, tableSchemas, k, createdTableIds,
                   errors, tableIds, outcome, mt, mt_outcome, log,
                   outstanding, nextErr>>

(* The inner catch recording the error and, like the success path, the
   destination table id: the push placed after the try/catch. *)
TableFailed_AlsoPushesId ==
    /\ pc = "migrateTable"
    /\ mt_outcome.state = "rejected"
    /\ LET error == mt_outcome.reason
       IN  /\ errors' = Append(errors, ToError(error, nextErr))
           /\ log' = Emit(log, ProgressEvent("error", i, tableName,
                                             ToError(error, nextErr + 1)))
           /\ nextErr' = nextErr
                           + Wraps(error) * (IF onProgress THEN 2 ELSE 1)
    /\ tableIds' = Append(tableIds, createdTableIds[i])
    /\ i' = i + 1
    /\ pc' = "migrating"
    /\ mt_pc' = "idle"
    /\ UNCHANGED <<fnVars, wizardVars, suspended,
                   source, destination, onProgress, documentId, gristTables,
                   gristTableMappings, tableSchemas, k, createdTableIds,
                   outcome, mt, mt_outcome, outstanding>>

(* The inner catch stamping its event with the loop index, not index + 1. *)
TableFailed_ReportsIndex ==
    /\ pc = "migrateTable"
    /\ mt_outcome.state = "rejected"
    /\ LET error == mt_outcome.reason
       IN  /\ errors' = Append(errors, ToError(error, nextErr))
           /\ log' = Emit(log, ProgressEvent("error", i - 1, tableName,
                                             ToError(error, nextErr + 1)))
           /\ nextErr' = nextErr
                           + Wraps(error) * (IF onProgress THEN 2 ELSE 1)
    /\ i' = i + 1
    /\ pc' = "migrating"
    /\ mt_pc' = "idle"
    /\ UNCHANGED <<fnVars, wizardVars, suspended,
                   source, destination, onProgress, documentId, gristTables,
                   gristTableMappings, tableSchemas, k, createdTableIds,
                   tableIds, outcome, mt, mt_outcome, outstanding>>

(* The inner catch recording the error only when there is a callback to
   report it to. *)
TableFailed_NeedsCallback ==
    /\ pc = "migrateTable"
    /\ mt_outcome.state = "rejected"
    /\ LET error == mt_outcome.reason
       IN  /\ errors' = IF onProgress
                        THEN Append(errors, ToError(error, nextErr))
                        ELSE errors
           /\ log' = Emit(log, ProgressEvent("error", i, tableName,
                                             ToError(error, nextErr + 1)))
           /\ nextErr' = nextErr
                           + Wraps(error) * (IF onProgress THEN 2 ELSE 1)
    /\ i' = i + 1
    /\ pc' = "migrating"
    /\ mt_pc' = "idle"
    /\ UNCHANGED <<fnVars, wizardVars, suspended,
                   source, destination, onProgress, documentId, gristTables,
                   gristTableMappings, tableSchemas, k, createdTableIds,
                   tableIds, outcome, mt, mt_outcome, outstanding>>

(* Lines 198-207: migrateTable rejected; the inner catch records the error,
   emits the error event of table i and lets the loop go on.  Each of the two
   conversions to Error creates its own object when the value is no Error;
   the second is evaluated only when onProgress is supplied. *)
TableFailed ==
    /\ pc = "migrateTable"
    /\ mt_outcome.state = "rejected"
    /\ LET error == mt_outcome.reason
       IN  /\ errors' = Append(errors, ToError(error, nextErr))
           /\ log' = Emit(log, ProgressEvent("error", i, tableName,
                                             ToError(error, nextErr + 1)))
           /\ nextErr' = nextErr
                           + Wraps(error) * (IF onProgress THEN 2 ELSE 1)
    /\ i' = i + 1
    /\ pc' = "migrating"
    /\ mt_pc' = "idle"
    /\ UNCHANGED <<fnVars, wizardVars, suspended,
                   source, destination, onProgress, documentId, gristTables,
                   gristTableMappings, tableSchemas, k, createdTableIds,
                   tableIds, outcome, mt, mt_outcome, outstanding>>

(* The complete event stamped with currentTable 0, like the setup events. *)
Complete_CurrentTableZero ==
    /\ pc = "migrating"
    /\ i > Len(source.tableIds)
    /\ log' = Emit(log, ProgressEvent("complete", 0, <<>>, NoError))
    /\ outcome' = Fulfilled([documentId |-> documentId, tableIds |-> tableIds,
                             errors |-> errors])
    /\ pc' = "resolved"
    /\ UNCHANGED <<fnVars, wizardVars, suspended,
                   source, destination, onProgress, documentId, gristTables,
                   gristTableMappings, tableSchemas, k, createdTableIds, i,
                   errors, tableIds, mt, mt_pc, mt_outcome, outstanding,
                   nextErr>>

(* Lines 210-217: the loop is over; the complete event, then the result. *)
Complete ==
    /\ pc = "migrating"
    /\ i > Len(source.tableIds)
    /\ log' = Emit(log, ProgressEvent("complete", Len(source.tableIds), <<>>,
                                      NoError))
    /\ outcome' = Fulfilled(MigrationResult)
    /\ pc' = "resolved"
    /\ UNCHANGED <<fnVars, wizardVars, suspended,
                   source, destination, onProgress, documentId, gristTables,
                   gristTableMappings, tableSchemas, k, createdTableIds, i,
                   errors, tableIds, mt, mt_pc, mt_outcome, outstanding,
                   nextErr>>

-----------------------------------------------------------------------------
(* Specifications *)

InitCommon ==
    /\ destination = [workspaceId |-> 123, documentName |-> "Test Document"]
    /\ documentId = ""
    /\ gristTables = <<>>
    /\ gristTableMappings = <<>>
    /\ tableSchemas = <<>>
    /\ k = 0
    /\ createdTableIds = <<>>
    /\ i = 0
    /\ errors = <<>>
    /\ tableIds = <<>>
    /\ outcome = Pending
    /\ mt_pc = "idle"
    /\ mt_outcome = Pending
    /\ log = <<>>
    /\ outstanding = 0
    /\ nextErr = 1

(* None of the exported pure functions is called directly. *)
NoFunctionCall ==
    /\ fn = "none"
    /\ fnArgs = <<>>
    /\ fnRet = <<>>

(* No second run of migrateTables exists. *)
SingleRun == suspended = [pc |-> "none"]

(* migrateTables and the exported functions are called without the wizard. *)
NoWizard ==
    /\ wizard = [currentStep |-> 0]
    /\ wizardLog = <<>>

(* migrateTables has just been called with some job. *)
Init ==
    /\ InitCommon
    /\ NoWizard
    /\ NoFunctionCall
    /\ SingleRun
    /\ \E job \in Jobs : source = [baseId |-> "base123", tableIds |-> job]
    /\ onProgress \in BOOLEAN
    /\ pc = "start"
    /\ mt = NoFrame

Next ==
    \/ Start
    \/ CreateDocumentResolved
    \/ CreateDocumentRejected
    \/ FetchNextSchema
    \/ GetTableSchemaResolved
    \/ GetTableSchemaRejected
    \/ CreateTables
    \/ AddTablesResolved
    \/ AddTablesRejected
    \/ MigrateNext
    \/ TableMigrated
    \/ TableFailed
    \/ Complete
    \/ MigrateTableStep

Spec == Init /\ [][Next]_vars

(* A run in which every awaited service call eventually resolves or rejects
   and every continuation whose promise has settled is eventually run by the
   event loop: no enabled step is postponed forever. *)
FairSpec == Init /\ [][Next]_vars /\ WF_vars(Next)

-----------------------------------------------------------------------------
(* Two runs of migrateTables on one event loop.  The variables hold the run
   that is executing; suspended holds the other.  Everything a run declares
   (lines 112-114, 125-133, 164, 170-174, and the frame of its migrateTable
   call) and its own history go with the run; the allocator of Error
   identities is the heap's and is shared. *)

Frame ==
    [source |-> source, destination |-> destination,
     onProgress |-> onProgress, pc |-> pc, documentId |-> documentId,
     gristTables |-> gristTables, gristTableMappings |-> gristTableMappings,
     tableSchemas |-> tableSchemas, k |-> k,
     createdTableIds |-> createdTableIds, i |-> i, errors |-> errors,
     tableIds |-> tableIds, outcome |-> outcome, mt |-> mt, mt_pc |-> mt_pc,
     mt_outcome |-> mt_outcome, log |-> log, outstanding |-> outstanding]

(* The locals of the run that is resumed, other than the two accumulators. *)
Resume ==
    /\ source' = suspended.source
    /\ destination' = suspended.destination
    /\ onProgress' = suspended.onProgress
    /\ pc' = suspended.pc
    /\ documentId' = suspended.documentId
    /\ gristTables' = suspended.gristTables
    /\ gristTableMappings' = suspended.gristTableMappings
    /\ tableSchemas' = suspended.tableSchemas
    /\ k' = suspended.k
    /\ createdTableIds' = suspended.createdTableIds
    /\ i' = suspended.i
    /\ outcome' = suspended.outcome
    /\ mt' = suspended.mt
    /\ mt_pc' = suspended.mt_pc
    /\ mt_outcome' = suspended.mt_outcome
    /\ log' = suspended.log
    /\ outstanding' = suspended.outstanding

(* The accumulators declared once for all runs instead of per call. *)
Switch_SharedAccumulators ==
    /\ suspended.pc # "none"
    /\ Resume
    /\ suspended' = Frame
    /\ UNCHANGED <<fnVars, wizardVars, nextErr, errors, tableIds>>

(* The event loop leaves the executing run where it stands and continues
   the other one.  The runs are switched between any two steps, which
   covers every switch at an await. *)
Switch ==
    /\ suspended.pc # "none"
    /\ Resume
    /\ errors' = suspended.errors
    /\ tableIds' = suspended.tableIds
    /\ suspended' = Frame
    /\ UNCHANGED <<fnVars, wizardVars, nextErr>>

(* The jobs of the first of two concurrent runs; the second migrates the
   first table once more. *)
TwoRunJobs == {<<1>>, <<1, 2>>}

(* migrateTables has been called twice; neither run has taken a step. *)
InitTwoRuns ==
    /\ InitCommon
    /\ NoWizard
    /\ NoFunctionCall
    /\ \E job \in TwoRunJobs : source = [baseId |-> "base123", tableIds |-> job]
    /\ onProgress = TRUE
    /\ pc = "start"
    /\ mt = NoFrame
    /\ suspended = [Frame EXCEPT
                      !.source = [baseId |-> "base123", tableIds |-> <<1>>]]

NextTwoRuns == Next \/ Switch

SpecTwoRuns == InitTwoRuns /\ [][NextTwoRuns]_vars

(* The same job run twice, with a progress callback and then, once that run
   has ended, without one. *)
InitTwoSinks ==
    /\ InitCommon
    /\ NoWizard
    /\ NoFunctionCall
    /\ \E job \in TwoRunJobs : source = [baseId |-> "base123", tableIds |-> job]
    /\ onProgress = TRUE
    /\ pc = "start"
    /\ mt = NoFrame
    /\ suspended = [Frame EXCEPT !.onProgress = FALSE]

(* The first run has ended; the second starts. *)
RunOther ==
    /\ pc \in {"resolved", "rejected"}
    /\ suspended.pc = "start"
    /\ Switch

NextTwoSinks == Next \/ RunOther

SpecTwoSinks == InitTwoSinks /\ [][NextTwoSinks]_vars

-----------------------------------------------------------------------------
(* The Index wizard (src/pages/Index.tsx).  wizard holds the component's
   state; a call of handleStartMigration that reaches migrateTables owns one
   run of migrateTables, the executing one or the suspended one, and is
   continued when that run has settled. *)

(* The ids of the tables getTables answers with for the selected base. *)
airtableTables == {1}

(* The ids of the workspaces the user can pick from. *)
gristWorkspaces == {123}

(* At most this many calls of handleStartMigration reach migrateTables. *)
MaxMigrations == 2

(* useState (lines 291-311): the state of a freshly mounted component. *)
InitWizard ==
    /\ InitCommon
    /\ NoFunctionCall
    /\ SingleRun
    /\ source = [baseId |-> "", tableIds |-> <<>>]
    /\ onProgress = FALSE
    /\ pc = "none"
    /\ mt = NoFrame
    /\ wizard = [currentStep |-> 1, selectedBase |-> "",
                 selectedTables |-> <<>>, selectedWorkspace |-> Null,
                 isImporting |-> FALSE, createdDocumentId |-> ""]
    /\ wizardLog = <<>>

(* What no handler but handleStartMigration touches. *)
migrationVars == <<runVars, mt, mt_pc, mt_outcome, log, outstanding, nextErr,
                   suspended, wizardLog>>

(* handleTokenValidation, both services accepting the tokens: line 370. *)
handleTokenValidation ==
    /\ wizard.currentStep = 1
    /\ wizard' = [wizard EXCEPT !.currentStep = 2]
    /\ UNCHANGED <<fnVars, migrationVars>>

(* handleBaseSelection, getTables having resolved: lines 391, 398. *)
handleBaseSelection ==
    /\ wizard.currentStep = 2
    /\ wizard' = [wizard EXCEPT !.selectedBase = "base123",
                                !.currentStep = 3]
    /\ UNCHANGED <<fnVars, migrationVars>>

(* onGoBack of steps 2, 3 and 4. *)
onGoBack ==
    /\ wizard.currentStep \in {2, 3, 4}
    /\ wizard' = [wizard EXCEPT !.currentStep = @ - 1]
    /\ UNCHANGED <<fnVars, migrationVars>>

(* prev.includes(tableId) *)
Includes(seq, x) == \E j \in DOMAIN seq : seq[j] = x

(* handleTableToggle (lines 418-424), offered by step 3. *)
handleTableToggle ==
    /\ wizard.currentStep = 3
    /\ \E tableId \in airtableTables :
         wizard' = [wizard EXCEPT !.selectedTables =
                      IF Includes(@, tableId)
                      THEN SelectSeq(@, LAMBDA id : id # tableId)
                      ELSE Append(@, tableId)]
    /\ UNCHANGED <<fnVars, migrationVars>>

(* handleContinueToOrgSelection (lines 426-437), offered by step 3: nothing
   but a toast when no table is selected. *)
handleContinueToOrgSelection ==
    /\ wizard.currentStep = 3
    /\ wizard' = IF Len(wizard.selectedTables) = 0
                 THEN wizard
                 ELSE [wizard EXCEPT !.currentStep = 4]
    /\ UNCHANGED <<fnVars, migrationVars>>

(* handleOrgSelection (line 462), offered by step 4. *)
handleOrgSelection ==
    /\ wizard.currentStep = 4
    /\ wizard' = [wizard EXCEPT !.selectedWorkspace = Null]
    /\ UNCHANGED <<fnVars, migrationVars>>

(* handleWorkspaceSelection (lines 487-489), offered by step 4. *)
handleWorkspaceSelection ==
    /\ wizard.currentStep = 4
    /\ \E workspaceId \in gristWorkspaces :
         wizard' = [wizard EXCEPT !.selectedWorkspace = Num(workspaceId)]
    /\ UNCHANGED <<fnVars, migrationVars>>

(* The calls of handleStartMigration that have reached migrateTables. *)
Migrations ==
    Len(wizardLog) + (IF pc = "none" THEN 0 ELSE 1)
                   + (IF suspended.pc = "none" THEN 0 ELSE 1)

(* migrateTables({...}) of lines 521-567 is entered: a run with fresh
   locals, which has not taken a step.  A run that is in flight is left
   where it stands. *)
CallMigrateTables ==
    /\ source' = [baseId |-> wizard.selectedBase,
                  tableIds |-> wizard.selectedTables]
    /\ destination' = [workspaceId |-> wizard.selectedWorkspace.val,
                       documentName |-> "Imported from Test Base"]
    /\ onProgress' = TRUE
    /\ pc' = "start"
    /\ documentId' = ""
    /\ gristTables' = <<>>
    /\ gristTableMappings' = <<>>
    /\ tableSchemas' = <<>>
    /\ k' = 0
    /\ createdTableIds' = <<>>
    /\ i' = 0
    /\ errors' = <<>>
    /\ tableIds' = <<>>
    /\ outcome' = Pending
    /\ mt' = NoFrame
    /\ mt_pc' = "idle"
    /\ mt_outcome' = Pending
    /\ log' = <<>>
    /\ outstanding' = 0
    /\ suspended' = IF pc = "none" THEN suspended ELSE Frame

(* The step moved to 5 before the migration is awaited. *)
handleStartMigration_StepsEarly ==
    /\ wizard.currentStep = 4
    /\ IF Len(wizard.selectedTables) = 0 \/ ~Truthy(wizard.selectedWorkspace)
       THEN UNCHANGED vars
       ELSE /\ Migrations < MaxMigrations
            /\ pc = "none" \/ suspended.pc = "none"
            /\ wizard' = [wizard EXCEPT !.isImporting = TRUE,
                                        !.currentStep = 5]
            /\ CallMigrateTables
            /\ UNCHANGED <<fnVars, nextErr, wizardLog>>

(* handleStartMigration up to its await (lines 491-521), offered by step 4:
   nothing but a toast when no table or no workspace is selected. *)
handleStartMigration ==
    /\ wizard.currentStep = 4
    /\ IF Len(wizard.selectedTables) = 0 \/ ~Truthy(wizard.selectedWorkspace)
       THEN UNCHANGED vars
       ELSE /\ Migrations < MaxMigrations
            /\ pc = "none" \/ suspended.pc = "none"
            /\ wizard' = [wizard EXCEPT !.isImporting = TRUE]
            /\ CallMigrateTables
            /\ UNCHANGED <<fnVars, nextErr, wizardLog>>

(* What the history keeps of a call of handleStartMigration that has
   finished: how its run ended, with which document, and what the call left
   in createdDocumentId and isImporting. *)
FinishedCall(after) ==
    [outcome |-> outcome.state,
     documentId |-> IF outcome.state = "fulfilled"
                    THEN outcome.value.documentId ELSE "",
     createdDocumentId |-> after.createdDocumentId,
     isImporting |-> after.isImporting]

(* The run is over and so is the call of handleStartMigration that made
   it; the locals of the run are dropped. *)
Return(after) ==
    /\ wizard' = after
    /\ wizardLog' = Append(wizardLog, FinishedCall(after))
    /\ source' = [baseId |-> "", tableIds |-> <<>>]
    /\ destination' = [workspaceId |-> 123, documentName |-> "Test Document"]
    /\ onProgress' = FALSE
    /\ pc' = "none"
    /\ documentId' = ""
    /\ gristTables' = <<>>
    /\ gristTableMappings' = <<>>
    /\ tableSchemas' = <<>>
    /\ k' = 0
    /\ createdTableIds' = <<>>
    /\ i' = 0
    /\ errors' = <<>>
    /\ tableIds' = <<>>
    /\ outcome' = Pending
    /\ mt' = NoFrame
    /\ log' = <<>>
    /\ UNCHANGED <<fnVars, suspended, mt_pc, mt_outcome, outstanding, nextErr>>

(* Lines 569-571: migrateTables has resolved with result. *)
MigrationResolved ==
    /\ pc = "resolved"
    /\ Return([wizard EXCEPT !.createdDocumentId = outcome.value.documentId,
                             !.isImporting = FALSE,
                             !.currentStep = 5])

(* Lines 573-582: migrateTables has rejected. *)
MigrationRejected ==
    /\ pc = "rejected"
    /\ Return([wizard EXCEPT !.isImporting = FALSE])

(* handleRestart (lines 595-613), offered by step 5. *)
handleRestart ==
    /\ wizard.currentStep = 5
    /\ wizard' = [wizard EXCEPT !.currentStep = 1,
                                !.selectedBase = "",
                                !.selectedTables = <<>>,
                                !.selectedWorkspace = Null,
                                !.createdDocumentId = ""]
    /\ UNCHANGED <<fnVars, migrationVars>>

NextWizard ==
    \/ handleTokenValidation
    \/ handleBaseSelection
    \/ onGoBack
    \/ handleTableToggle
    \/ handleContinueToOrgSelection
    \/ handleOrgSelection
    \/ handleWorkspaceSelection
    \/ handleStartMigration
    \/ Next
    \/ Switch
    \/ MigrationResolved
    \/ MigrationRejected
    \/ handleRestart

SpecWizard == InitWizard /\ [][NextWizard]_vars

(* migrateTable is about to be called directly, on a table of any size. *)
InitTable ==
    /\ InitCommon
    /\ NoWizard
    /\ NoFunctionCall
    /\ SingleRun
    /\ source = [baseId |-> "base123", tableIds |-> <<>>]
    /\ onProgress = FALSE
    /\ pc = "none"
    /\ \E mapping \in DirectMappings :
         mt = [source |-> [baseId |-> "base123", tableId |-> 1],
               destination |-> [documentId |-> "doc123",
                                tableId |-> DestTableId(1)],
               mapping |-> mapping, gristRecords |-> <<>>, i |-> 0]

NextTable ==
    \/ MigrateTableDirect
    \/ MigrateTableStep

SpecTable == InitTable /\ [][NextTable]_vars

-----------------------------------------------------------------------------
(* Direct calls of the record transformers, as their tests make them *)

(* The elements of array values and the arrays of up to MaxElems of them. *)
Elements == {Str("item1"), Num(2)}
Arrays == UNION {[1 .. n -> Elements] : n \in 0 .. MaxElems}

(* Field values: what the source sends for a cell and what it does not. *)
Values ==
    {Str("Hello"), Str(""), Num(42), Bool(TRUE), Null, Object}
    \cup {Arr(a) : a \in Arrays}

(* The field names of the records, in the order the fields were added, and
   the values each takes when present. *)
FieldNames == <<"Name", "Age", "Extra", "constructor">>

FieldValues(field) ==
    CASE field = "Name" -> Values
      [] field = "Age" -> {Num(25)}
      [] field = "Extra" -> {Str("should be ignored")}
      [] field = "constructor" -> {Str("x")}

AirtableRecords ==
    UNION {{[id |-> "rec123", fields |-> fields,
             fieldOrder |-> SelectSeq(FieldNames, LAMBDA f : f \in present)] :
              fields \in {g \in [present -> Values \cup {Num(25),
                                       Str("should be ignored"), Str("x")}] :
                            \A f \in present : g[f] \in FieldValues(f)}} :
           present \in SUBSET {"Name", "Age", "Extra", "constructor"}}

(* The keys of the mappings and the column ids each is mapped to. *)
ColumnIds(field) ==
    CASE field = "Name" -> {"full_name", ""}
      [] field = "Age" -> {"user_age"}
      [] field = "Email" -> {"contact_email"}
      [] field = "constructor" -> {"built_by"}

GristTableMappings ==
    UNION {{m \in [keys -> {"full_name", "", "user_age", "contact_email",
                            "built_by"}] :
              \A f \in keys : m[f] \in ColumnIds(f)} :
           keys \in SUBSET {"Name", "Age", "Email", "constructor"}}

NoRun ==
    /\ source = [baseId |-> "base123", tableIds |-> <<>>]
    /\ onProgress = FALSE
    /\ pc = "none"
    /\ mt = NoFrame

InitRecord ==
    /\ InitCommon
    /\ NoWizard
    /\ NoRun
    /\ SingleRun
    /\ fn = "none"
    /\ \E airtableRecord \in AirtableRecords :
         \E gristTableMapping \in GristTableMappings :
            fnArgs = [airtableRecord |-> airtableRecord,
                      gristTableMapping |-> gristTableMapping]
    /\ fnRet = <<>>

(* airtableToGristRecord of migration.ts is called. *)
CallAirtableToGristRecord ==
    /\ fn = "none"
    /\ fn' = "migration.airtableToGristRecord"
    /\ fnRet' = airtableToGristRecord(fnArgs.airtableRecord,
                                      fnArgs.gristTableMapping)
    /\ UNCHANGED <<wizardVars, suspended, runVars, mt, mt_pc, mt_outcome, log,
                   outstanding, nextErr, fnArgs>>

(* airtableToGristRecord of grist.ts is called. *)
CallGristAirtableToGristRecord ==
    /\ fn = "none"
    /\ fn' = "grist.airtableToGristRecord"
    /\ fnRet' = grist_airtableToGristRecord(fnArgs.airtableRecord,
                                            fnArgs.gristTableMapping)
    /\ UNCHANGED <<wizardVars, suspended, runVars, mt, mt_pc, mt_outcome, log,
                   outstanding, nextErr, fnArgs>>

(* Both transformers are called on the same record and mapping; fnRet holds
   the result of migration.ts followed by the result of grist.ts. *)
CallBothAirtableToGristRecord ==
    /\ fn = "none"
    /\ fn' = "both.airtableToGristRecord"
    /\ fnRet' = <<airtableToGristRecord(fnArgs.airtableRecord,
                                        fnArgs.gristTableMapping),
                  grist_airtableToGristRecord(fnArgs.airtableRecord,
                                              fnArgs.gristTableMapping)>>
    /\ UNCHANGED <<wizardVars, suspended, runVars, mt, mt_pc, mt_outcome, log,
                   outstanding, nextErr, fnArgs>>

NextRecord ==
    \/ CallAirtableToGristRecord
    \/ CallGristAirtableToGristRecord
    \/ CallBothAirtableToGristRecord

SpecRecord == InitRecord /\ [][NextRecord]_vars

-----------------------------------------------------------------------------
(* Direct calls of the schema translation *)

(* Fields a source table can have: of a text type, a numeric type, the
   multi-choice type and a type the translation does not know; one whose
   display name reads like the id of another, and one whose display name
   is the name of the prototype accessor of objects. *)
FieldPool ==
    {[id |-> "fldName", name |-> "Name", type |-> "singleLineText"],
     [id |-> "fldAge", name |-> "Age", type |-> "number"],
     [id |-> "fldTags", name |-> "Tags", type |-> "multipleSelects",
      options |-> [choices |-> <<[name |-> "a"], [name |-> "b"]>>]],
     [id |-> "fldSummary", name |-> "Summary", type |-> "aiText"],
     [id |-> "fldRef", name |-> "fldAge", type |-> "email"],
     [id |-> "fldProto", name |-> "__proto__", type |-> "singleLineText"]}

(* The schemas of a table of up to MaxFields fields, in every order; within
   a table the source keeps field ids and field names unique. *)
AirtableTables ==
    UNION {{[name |-> "Table1", fields |-> fields] :
              fields \in {g \in [1 .. n -> FieldPool] :
                            \A a, b \in 1 .. n :
                               a # b => /\ g[a].id # g[b].id
                                        /\ g[a].name # g[b].name}} :
           n \in 0 .. MaxFields}

(* The type tags a source field can carry: the ones the translation knows
   and two of the source's vocabulary that it does not. *)
FieldTypeTags == KnownTypes \cup {"aiText", "multipleRecordLinks"}

(* The options of a choice field: up to MaxElems choices, in every order. *)
ChoiceOptions ==
    UNION {{[choices |-> [c \in 1 .. n |-> [name |-> names[c]]]] :
              names \in [1 .. n -> {"a", "b"}]} : n \in 0 .. MaxElems}

(* The fields airtableToGristFieldType can be given: one of every type tag;
   the single-choice and multi-choice fields carry their options, as the
   source's schema does. *)
AirtableFields ==
    {[id |-> "fldX", name |-> "X", type |-> t] :
       t \in FieldTypeTags \ {"multipleSelects"}}
    \cup {[id |-> "fldX", name |-> "X", type |-> t, options |-> o] :
            t \in {"singleSelect", "multipleSelects"}, o \in ChoiceOptions}

InitSchema ==
    /\ InitCommon
    /\ NoWizard
    /\ NoRun
    /\ SingleRun
    /\ fn = "none"
    /\ \/ \E airtableTable \in AirtableTables :
            fnArgs = [airtableTable |-> airtableTable]
       \/ \E airtableField \in AirtableFields :
            fnArgs = [airtableField |-> airtableField]
    /\ fnRet = <<>>

(* airtableToGristFieldType is called. *)
CallAirtableToGristFieldType ==
    /\ fn = "none"
    /\ "airtableField" \in DOMAIN fnArgs
    /\ fn' = "grist.airtableToGristFieldType"
    /\ fnRet' = airtableToGristFieldType(fnArgs.airtableField)
    /\ UNCHANGED <<wizardVars, suspended, runVars, mt, mt_pc, mt_outcome, log,
                   outstanding, nextErr, fnArgs>>

(* A call that takes the fields out of the schema it was given. *)
CallAirtableToGristTable_ConsumesFields ==
    /\ fn = "none"
    /\ "airtableTable" \in DOMAIN fnArgs
    /\ fn' = "grist.airtableToGristTable"
    /\ fnRet' = airtableToGristTable(fnArgs.airtableTable)
    /\ fnArgs' = [airtableTable |->
                    [name |-> fnArgs.airtableTable.name, fields |-> <<>>]]
    /\ UNCHANGED <<wizardVars, suspended, runVars, mt, mt_pc, mt_outcome, log,
                   outstanding, nextErr>>

(* airtableToGristTable is called. *)
CallAirtableToGristTable ==
    /\ fn = "none"
    /\ "airtableTable" \in DOMAIN fnArgs
    /\ fn' = "grist.airtableToGristTable"
    /\ fnRet' = airtableToGristTable(fnArgs.airtableTable)
    /\ UNCHANGED <<wizardVars, suspended, runVars, mt, mt_pc, mt_outcome, log,
                   outstanding, nextErr, fnArgs>>

(* airtableToGristTable is called again on the schema of the first call;
   fnRet then holds the table and mapping of the first call followed by the
   table and mapping of the second. *)
CallAirtableToGristTableAgain ==
    /\ fn = "grist.airtableToGristTable"
    /\ Len(fnRet) = 2
    /\ fnRet' = fnRet \o airtableToGristTable(fnArgs.airtableTable)
    /\ UNCHANGED <<wizardVars, suspended, runVars, mt, mt_pc, mt_outcome, log,
                   outstanding, nextErr, fn, fnArgs>>

NextSchema ==
    \/ CallAirtableToGristFieldType
    \/ CallAirtableToGristTable
    \/ CallAirtableToGristTableAgain

SpecSchema == InitSchema /\ [][NextSchema]_vars

-----------------------------------------------------------------------------
(* Reading the history *)

SetupOps == {"createDocument", "getTableSchema", "addTablesToDocument"}
TableOps == {"getAllRecords", "addRecordsToTable"}

IsCall(e, ops) == e.kind = "call" /\ e.op \in ops
IsFailure(e, ops) == e.kind = "settle" /\ ~e.ok /\ e.op \in ops
IsSuccess(e, ops) == e.kind = "settle" /\ e.ok /\ e.op \in ops
IsEvent(e, status) == e.kind = "event" /\ e.status = status

(* Positions of the history that satisfy a test. *)
Positions(Test(_)) == {p \in 1 .. Len(log) : Test(log[p])}

(* The table (1-based) whose transfer is under way at position p: one
   getAllRecords call is issued per table. *)
TableAt(p) ==
    Cardinality({q \in 1 .. p : IsCall(log[q], {"getAllRecords"})})

(* How many record fetches and batch inserts have failed up to position p. *)
FailuresUpTo(p) == Cardinality({q \in 1 .. p : IsFailure(log[q], TableOps)})

-----------------------------------------------------------------------------
(* C1: per-table failure isolation.  Whenever the record fetch or a batch
   insert of table t (1-based; the event's currentTable) rejects in the
   migrating phase, the run does not reject; once the inner catch has run
   the error is the next entry of errors and exactly one error event with
   currentTable t, carrying it, was emitted, right after the failure; table
   t+1 is then announced (migrating event) and its
   record fetch attempted; a resolved run has attempted every table.  With
   3 tables of which only the 2nd's record fetch rejects, the result has
   one error, tableIds holds the destination ids of tables 1 and 3, and the
   error event of table 2 is directly followed by the migrating event of
   table 3. *)

OnlySecondFetchFails ==
    /\ totalTables = 3
    /\ \E p \in 1 .. Len(log) :
         /\ IsFailure(log[p], {"getAllRecords"})
         /\ TableAt(p) = 2
         /\ \A q \in 1 .. Len(log) :
              (log[q].kind = "settle" /\ ~log[q].ok) => q = p

C1_FailureIsolation ==
    /\ \A p \in 1 .. Len(log) :
         (pc # "none" /\ IsFailure(log[p], TableOps)) =>
           LET t == TableAt(p)
               f == FailuresUpTo(p)
               handled == i > t
               after == p + (IF onProgress THEN 3 ELSE 1)
           IN  /\ outcome.state # "rejected"
               /\ handled =>
                    /\ Len(errors) >= f
                    /\ errors[f] = log[p].value
                    /\ onProgress =>
                         /\ p < Len(log)
                         /\ IsEvent(log[p + 1], "error")
                         /\ log[p + 1].currentTable = t
                         /\ log[p + 1].error = log[p].value
                         /\ Cardinality({q \in 1 .. Len(log) :
                                           /\ IsEvent(log[q], "error")
                                           /\ log[q].currentTable = t}) = 1
               /\ (handled /\ t < totalTables
                     /\ (i > t + 1 \/ pc = "migrateTable")) =>
                    /\ onProgress =>
                         /\ IsEvent(log[after - 1], "migrating")
                         /\ log[after - 1].currentTable = t + 1
                    /\ IsCall(log[after], {"getAllRecords"})
                    /\ log[after].args.tableId = source.tableIds[t + 1]
               /\ pc = "resolved" =>
                    /\ outcome.state = "fulfilled"
                    /\ TableAt(Len(log)) = totalTables
    /\ (pc = "resolved" /\ OnlySecondFetchFails) =>
         /\ Len(outcome.value.errors) = 1
         /\ outcome.value.tableIds = <<createdTableIds[1], createdTableIds[3]>>
         /\ onProgress =>
              \E q \in 1 .. Len(Events) - 1 :
                 /\ Events[q].status = "error"
                 /\ Events[q].currentTable = 2
                 /\ Events[q + 1].status = "migrating"
                 /\ Events[q + 1].currentTable = 3

(* A resolved run of 3 tables in which only the 2nd record fetch rejected. *)
C1_Witness == pc = "resolved" /\ OnlySecondFetchFails /\ onProgress

-----------------------------------------------------------------------------
(* C2: fatal container-creation failure.  If createDocument rejects,
   migrateTables rejects with that same error (the same object, not a copy);
   the error event, carrying that error, has been emitted by then and is the
   last event; no result is produced and no migrating event is ever
   emitted. *)

NoMigratingEvent == \A q \in 1 .. Len(log) : ~IsEvent(log[q], "migrating")

C2_FatalCreateFailure ==
    \A p \in 1 .. Len(log) :
       IsFailure(log[p], {"createDocument"}) =>
         /\ outcome = Rejected(log[p].value)
         /\ pc = "rejected"
         /\ onProgress =>
              /\ p + 1 = Len(log)
              /\ IsEvent(log[p + 1], "error")
              /\ log[p + 1].error = log[p].value
         /\ NoMigratingEvent

(* createDocument has rejected in a run that reports progress. *)
C2_Witness ==
    /\ onProgress
    /\ outcome.state = "rejected"
    /\ totalTables > 0
    /\ \E p \in 1 .. Len(log) : IsFailure(log[p], {"createDocument"})

-----------------------------------------------------------------------------
(* C3: fatal schema-fetch failure.  If getTableSchema rejects for the k-th
   table, migrateTables rejects with that error and emits an error event
   carrying an Error; no schema is fetched for a later table (only the k-1
   earlier schemas were translated), addTablesToDocument is never called and
   no getAllRecords or addRecordsToTable call is made. *)

SchemaFetchesUpTo(p) ==
    Cardinality({q \in 1 .. p : IsCall(log[q], {"getTableSchema"})})

NothingAfterSchemaFailure(p) ==
    /\ SchemaFetchesUpTo(Len(log)) = SchemaFetchesUpTo(p)
    /\ \A q \in 1 .. Len(log) :
         ~IsCall(log[q], {"addTablesToDocument", "getAllRecords",
                          "addRecordsToTable"})

C3_FatalSchemaFailure ==
    \A p \in 1 .. Len(log) :
       IsFailure(log[p], {"getTableSchema"}) =>
         /\ outcome = Rejected(log[p].value)
         /\ onProgress =>
              /\ IsEvent(log[Len(log)], "error")
              /\ log[Len(log)].error.jstype = "Error"
         /\ NothingAfterSchemaFailure(p)
         /\ Len(gristTables) = SchemaFetchesUpTo(p) - 1

(* The schema fetch of a table that is neither the first nor the last
   rejected. *)
C3_Witness ==
    /\ onProgress
    /\ pc = "rejected"
    /\ \E p \in 1 .. Len(log) :
         /\ IsFailure(log[p], {"getTableSchema"})
         /\ SchemaFetchesUpTo(p) < totalTables
         /\ SchemaFetchesUpTo(p) > 1

-----------------------------------------------------------------------------
(* C4: no rollback after a fatal failure.  When createDocument,
   getTableSchema or addTablesToDocument rejects, no further service call is
   issued (no cleanup, no retry), nothing is left outstanding, the run has
   rejected without a result and takes no further step. *)
C4_NoRollback ==
    \A p \in 1 .. Len(log) :
       IsFailure(log[p], SetupOps) =>
         /\ \A q \in p + 1 .. Len(log) : log[q].kind = "event"
         /\ outstanding = 0
         /\ pc = "rejected"
         /\ outcome.state = "rejected"
         /\ ~ENABLED Next

(* Table creation rejected after the container and all schemas were there. *)
C4_Witness ==
    /\ pc = "rejected"
    /\ totalTables >= 2
    /\ \E p \in 1 .. Len(log) : IsFailure(log[p], {"addTablesToDocument"})
    /\ \E p \in 1 .. Len(log) : IsSuccess(log[p], {"createDocument"})

-----------------------------------------------------------------------------
(* C5: forward-only phase order.  In every run the phases occur in the
   order CREATING_CONTAINER, FETCHING_SCHEMAS, CREATING_TABLES,
   MIGRATING(1..n), COMPLETE (or the fatal error exit) and none is
   revisited: no step moves to an earlier phase, an earlier schema or an
   earlier table.  On a run that resolves the progress events are exactly
   creating(0), fetching(0), creating(0), then one migrating(j) event for
   each j = 1..n in increasing j, each optionally followed by one error(j)
   event, then exactly one complete(n) event, which is the last. *)

PhaseOf(at) ==
    CASE at = "start" -> 0
      [] at = "createDocument" -> 1
      [] at \in {"fetchSchemas", "getTableSchema"} -> 2
      [] at = "addTablesToDocument" -> 3
      [] at \in {"migrating", "migrateTable"} -> 4
      [] at \in {"resolved", "rejected"} -> 5

StepsForward ==
    \/ PhaseOf(pc') > PhaseOf(pc)
    \/ /\ PhaseOf(pc') = PhaseOf(pc)
       /\ pc # "resolved" /\ pc # "rejected"
       /\ k' >= k
       /\ i' >= i
       /\ (pc = "migrateTable" /\ pc' = "migrating") => i' = i + 1
       /\ (pc = "getTableSchema" /\ pc' = "fetchSchemas") => k' = k + 1

ResolvedEventsExact ==
    LET ev == Events
        m == Len(ev)
        migrating == SelectSeq(ev, LAMBDA e : e.status = "migrating")
    IN  /\ m >= 4 + totalTables
        /\ ev[1] = ProgressEvent("creating", 0, <<>>, NoError)
        /\ ev[2] = ProgressEvent("fetching", 0, <<>>, NoError)
        /\ ev[3] = ProgressEvent("creating", 0, <<>>, NoError)
        /\ ev[m] = ProgressEvent("complete", totalTables, <<>>, NoError)
        /\ \A q \in 4 .. m - 1 : ev[q].status \in {"migrating", "error"}
        /\ Len(migrating) = totalTables
        /\ \A j \in 1 .. totalTables : migrating[j].currentTable = j
        /\ \A q \in 4 .. m - 1 :
             ev[q].status = "error" =>
               /\ ev[q - 1].status = "migrating"
               /\ ev[q - 1].currentTable = ev[q].currentTable

C5_ForwardOnly ==
    /\ [][pc # "none" => StepsForward]_vars
    /\ []((pc = "resolved" /\ onProgress) => ResolvedEventsExact)

(* A resolved run of 3 tables with a failed and a migrated table. *)
C5_Witness ==
    /\ pc = "resolved"
    /\ onProgress
    /\ totalTables = 3
    /\ Len(errors) >= 1
    /\ Len(tableIds) >= 1

-----------------------------------------------------------------------------
(* C6: strict table order.  Schemas are fetched in the order of
   source.tableIds; record fetches are issued in that order too; every
   service call has settled before the next call of the migrating phase is
   issued, every batch goes to the table whose records were fetched last,
   and the records of table t+1 are requested only after the loop has
   finished table t. *)

CallsOf(op) == SelectSeq(log, LAMBDA e : IsCall(e, {op}))

IsPrefixOfJob(calls) ==
    /\ Len(calls) <= totalTables
    /\ \A j \in 1 .. Len(calls) : calls[j].args.tableId = source.tableIds[j]

SettledBefore(p) ==
    Cardinality({q \in 1 .. p - 1 : log[q].kind = "call"})
      = Cardinality({q \in 1 .. p - 1 : log[q].kind = "settle"})

C6_StrictTableOrder ==
    pc # "none" =>
      /\ IsPrefixOfJob(CallsOf("getTableSchema"))
      /\ IsPrefixOfJob(CallsOf("getAllRecords"))
      /\ \A p \in 1 .. Len(log) :
           /\ IsCall(log[p], TableOps) => SettledBefore(p)
           /\ IsCall(log[p], {"addRecordsToTable"}) =>
                log[p].args.tableId = createdTableIds[TableAt(p)]
      /\ PhaseOf(pc) = 4 =>
           TableAt(Len(log)) = (IF pc = "migrateTable" THEN i ELSE i - 1)
      /\ PhaseOf(pc) < 4 => TableAt(Len(log)) = 0

(* The third table's records are being fetched after two batches of the
   first table and a failed fetch of the second. *)
C6_Witness ==
    /\ pc = "migrateTable"
    /\ mt_pc = "getAllRecords"
    /\ i = 3
    /\ source.tableIds = <<1, 2, 3>>
    /\ Len(CallsOf("addRecordsToTable")) = 2
    /\ Len(errors) = 1

-----------------------------------------------------------------------------
(* C7: at most one outstanding remote call.  In a run of migrateTables,
   the migrateTable calls it makes included, never have two service calls
   been issued without either having settled: every call is issued only
   when all earlier calls have settled. *)
C7_OneOutstanding ==
    pc # "none" =>
      /\ outstanding \in {0, 1}
      /\ outstanding = Cardinality({q \in 1 .. Len(log) : log[q].kind = "call"})
                       - Cardinality({q \in 1 .. Len(log) :
                                        log[q].kind = "settle"})
      /\ \A p \in 1 .. Len(log) : log[p].kind = "call" => SettledBefore(p)

(* The second batch of a table is in flight. *)
C7_Witness ==
    /\ pc = "migrateTable"
    /\ mt_pc = "addRecordsToTable"
    /\ mt.i = batchSize
    /\ outstanding = 1

-----------------------------------------------------------------------------
(* C8: batching in migrateTable.  When migrateTable returns (every insert
   succeeded) after fetching N records, exactly ceil(N / batchSize)
   addRecordsToTable calls were issued, each with between 1 and batchSize
   records and addressed to the configured destination document and table,
   and the batches concatenated in call order are the transformed records in
   the order the source returned them; for N = 0 no call is issued. *)

RECURSIVE Concat(_, _)
Concat(calls, n) ==
    IF n = 0 THEN <<>> ELSE Concat(calls, n - 1) \o calls[n].args.records

(* N: the number of records getAllRecords resolved with. *)
Fetched ==
    LET p == CHOOSE q \in 1 .. Len(log) : IsSuccess(log[q], {"getAllRecords"})
    IN  log[p].value.count

C8_Batching ==
    (pc = "none" /\ mt_pc = "returned") =>
      LET batches == CallsOf("addRecordsToTable")
      IN  /\ mt_outcome.state = "fulfilled"
          /\ Len(batches) = (Fetched + batchSize - 1) \div batchSize
          /\ Fetched = 0 => Len(batches) = 0
          /\ \A b \in 1 .. Len(batches) :
               /\ Len(batches[b].args.records) >= 1
               /\ Len(batches[b].args.records) <= batchSize
               /\ batches[b].args.documentId = mt.destination.documentId
               /\ batches[b].args.tableId = mt.destination.tableId
          /\ Concat(batches, Len(batches))
               = [j \in 1 .. Fetched |->
                    airtableToGristRecord(AirtableRecord(j), mt.mapping)]

(* migrateTable returned after three batches, the last one not full. *)
C8_Witness ==
    /\ pc = "none"
    /\ mt_pc = "returned"
    /\ Len(CallsOf("addRecordsToTable")) = 3
    /\ Fetched % batchSize # 0
    /\ mt.mapping # <<>>

-----------------------------------------------------------------------------
(* C9: fail-fast batches.  If the k-th addRecordsToTable call of a table
   rejects, migrateTable rejects with that error and does nothing more: no
   batch after the k-th is sent, the failed batch is not sent again (the k
   inserts carry the first k slices of the records, once each), and no call
   other than the record fetch and the k inserts was made, so the k-1
   batches already sent are not undone. *)
C9_FailFast ==
    \A p \in 1 .. Len(log) :
       (pc = "none" /\ IsFailure(log[p], {"addRecordsToTable"})) =>
         LET batches == CallsOf("addRecordsToTable")
             kth == Len(batches)
         IN  /\ p = Len(log)
             /\ mt_pc = "threw"
             /\ mt_outcome = Rejected(log[p].value)
             /\ outstanding = 0
             /\ ~ENABLED NextTable
             /\ Len(Calls) = 1 + kth
             /\ Cardinality({q \in 1 .. Len(log) :
                               IsSuccess(log[q], {"addRecordsToTable"})})
                  = kth - 1
             /\ Concat(batches, kth) = SubSeq(mt.gristRecords, 1,
                                              Min(kth * batchSize,
                                                  Len(mt.gristRecords)))

(* The second insert rejected while a third batch was still to be sent. *)
C9_Witness ==
    /\ pc = "none"
    /\ mt_pc = "threw"
    /\ Len(CallsOf("addRecordsToTable")) = 2
    /\ Len(mt.gristRecords) > 2 * batchSize

-----------------------------------------------------------------------------
(* C10: non-fatal failures never escape the per-table boundary.  Once
   addTablesToDocument has resolved the run never rejects, whatever
   getAllRecords and addRecordsToTable answer, and it is never stuck before
   COMPLETE; a rejected run had its failure in container creation, schema
   fetching or table creation; a resolved run returns a result. *)
C10_OnlySetupFailuresReject ==
    /\ (\E p \in 1 .. Len(log) : IsSuccess(log[p], {"addTablesToDocument"})) =>
         /\ outcome.state # "rejected"
         /\ pc # "rejected"
         /\ pc # "resolved" => ENABLED Next
    /\ (outcome.state = "rejected" \/ pc = "rejected") =>
         /\ \E p \in 1 .. Len(log) :
              /\ IsFailure(log[p], SetupOps)
              /\ \A q \in p + 1 .. Len(log) : log[q].kind = "event"
         /\ \A p \in 1 .. Len(log) : ~IsFailure(log[p], TableOps)
    /\ pc = "resolved" =>
         /\ outcome.state = "fulfilled"
         /\ outcome.value.errors = errors
         /\ Len(errors) = FailuresUpTo(Len(log))

(* A resolved run in which every one of 3 tables failed, one of them in a
   batch insert. *)
C10_Witness ==
    /\ pc = "resolved"
    /\ totalTables = 3
    /\ Len(errors) = 3
    /\ \E p \in 1 .. Len(log) : IsFailure(log[p], {"addRecordsToTable"})

-----------------------------------------------------------------------------
(* C11: a fatal failure means nothing was migrated.  In every run of
   migrateTables that rejects, no addRecordsToTable call was issued before
   the rejection: no record reached the destination, no record was even
   fetched, and no table counts as migrated. *)
C11_FatalMeansNothingMigrated ==
    (outcome.state = "rejected" \/ pc = "rejected") =>
      /\ \A p \in 1 .. Len(log) : ~IsCall(log[p], TableOps)
      /\ tableIds = <<>>
      /\ i = 0
      /\ mt = NoFrame

(* A run without progress callback rejected at the last point a fatal
   failure can occur: the creation of the tables of a 3-table job. *)
C11_Witness ==
    /\ outcome.state = "rejected"
    /\ ~onProgress
    /\ totalTables = 3
    /\ IsFailure(log[Len(log)], {"addTablesToDocument"})

-----------------------------------------------------------------------------
(* C12 as stated: whenever migrateTables resolves with a non-empty errors
   list, the returned tableIds is non-empty. *)
C12_SomeTableMigrated ==
    (outcome.state = "fulfilled" /\ outcome.value.errors # <<>>) =>
      outcome.value.tableIds # <<>>

(* C12, amended: whenever migrateTables resolves with a non-empty errors
   list, every source table is accounted for once, as an entry of errors or
   as an entry of tableIds: tableIds has totalTables - Len(errors) entries,
   fewer than totalTables, and it is empty exactly when the transfer of
   every table failed. *)
C12_SomeOrNoTableMigrated ==
    (outcome.state = "fulfilled" /\ outcome.value.errors # <<>>) =>
      LET result == outcome.value
      IN  /\ Len(result.tableIds) = totalTables - Len(result.errors)
          /\ Len(result.tableIds) < totalTables
          /\ Len(result.errors) = FailuresUpTo(Len(log))
          /\ result.tableIds = <<>> <=> FailuresUpTo(Len(log)) = totalTables

(* A resolved run of 2 tables whose transfers both failed. *)
C12_Witness ==
    /\ outcome.state = "fulfilled"
    /\ totalTables = 2
    /\ Len(outcome.value.errors) = 2
    /\ outcome.value.tableIds = <<>>

-----------------------------------------------------------------------------
(* C13: result contents.  When migrateTables resolves, documentId is the id
   createDocument resolved with, and tableIds is exactly the subsequence, in
   source order, of the ids addTablesToDocument resolved with whose table's
   transfer succeeded (no record fetch or insert of that table rejected);
   its length never exceeds the number of source table ids, and when every
   transfer succeeded it equals the list addTablesToDocument resolved with
   and errors is empty. *)

(* What the call of op resolved with. *)
ResolvedWith(op) ==
    LET p == CHOOSE q \in 1 .. Len(log) : IsSuccess(log[q], {op})
    IN  log[p].value

(* The tables (1-based) of which a record fetch or an insert rejected. *)
FailedTables ==
    {TableAt(p) : p \in {q \in 1 .. Len(log) : IsFailure(log[q], TableOps)}}

(* The entries of ids at the positions up to n that are not in drop. *)
RECURSIVE Keep(_, _, _)
Keep(ids, drop, n) ==
    IF n = 0 THEN <<>>
    ELSE IF n \in drop THEN Keep(ids, drop, n - 1)
         ELSE Append(Keep(ids, drop, n - 1), ids[n])

C13_ResultContents ==
    outcome.state = "fulfilled" =>
      LET result == outcome.value
          created == ResolvedWith("addTablesToDocument").tableIds
      IN  /\ result.documentId = ResolvedWith("createDocument").documentId
          /\ result.tableIds = Keep(created, FailedTables, Len(created))
          /\ Len(result.tableIds) <= totalTables
          /\ FailedTables = {} =>
               /\ result.tableIds = created
               /\ result.errors = <<>>

(* A resolved run of 3 tables in which the first and the last table failed. *)
C13_Witness ==
    /\ outcome.state = "fulfilled"
    /\ totalTables = 3
    /\ FailedTables = {1, 3}
    /\ outcome.value.tableIds = <<DestTableId(2)>>

-----------------------------------------------------------------------------
(* C14: termination.  If every call to the source and destination services
   eventually resolves or rejects, every run of migrateTables eventually
   either resolves or rejects; it resolves only from COMPLETE (every table
   was attempted and, with a progress callback, the complete event is the
   last event), it rejects only with an error, and it never stays forever in
   an intermediate phase. *)

Terminated == pc = "resolved" \/ pc = "rejected"

EndsInComplete ==
    /\ outcome.state = "fulfilled"
    /\ i = totalTables + 1
    /\ outstanding = 0
    /\ onProgress => IsEvent(log[Len(log)], "complete")

C14_Termination ==
    /\ <>Terminated
    /\ [](pc = "resolved" => EndsInComplete)
    /\ [](pc = "rejected" =>
            outcome.state = "rejected" /\ outcome.reason.jstype = "Error")

(* A run of 3 tables has resolved after the two batches of its last table
   were inserted. *)
C14_Witness ==
    /\ pc = "resolved"
    /\ totalTables = 3
    /\ mt.source.tableId = 3
    /\ mt.i = 2 * batchSize

-----------------------------------------------------------------------------
(* Reading a call of a record transformer *)

Record == fnArgs.airtableRecord.fields
Mapping == fnArgs.gristTableMapping

(* The same JavaScript value: same type, same content. *)
SameValue(a, b) == a.jstype = b.jstype /\ a = b

(* written is what the coercion rule prescribes for value. *)
CoercedAs(written, value) ==
    CASE value.jstype \in {"string", "number", "boolean"} ->
           SameValue(written, value)
      [] value.jstype = "array" /\ Len(value.val) = 1 ->
           SameValue(written, value.val[1])
      [] value.jstype = "array" /\ Len(value.val) # 1 ->
           /\ written.jstype = "array"
           /\ Len(written.val) = Len(value.val) + 1
           /\ SameValue(written.val[1], Str("L"))
           /\ \A j \in 1 .. Len(value.val) :
                SameValue(written.val[j + 1], value.val[j])
      [] OTHER -> written.jstype = "null"

-----------------------------------------------------------------------------
(* C15: value coercion in airtableToGristRecord of migration.ts.  For every
   field that is mapped to a column (a key of the mapping whose column id is
   not empty), the value written under that column is: the value itself for
   a string, number or boolean; the sole element for a sequence of length 1;
   the list "L" followed by the original elements in order for a sequence of
   any other length, the empty one included; null for any other value (null,
   object).  Every value of the result is the coerced value of a field of
   the record. *)
C15_ValueCoercion ==
    fn = "migration.airtableToGristRecord" =>
      /\ \A f \in DOMAIN Record \cap DOMAIN Mapping :
           Mapping[f] # "" =>
             /\ Mapping[f] \in DOMAIN fnRet
             /\ CoercedAs(fnRet[Mapping[f]], Record[f])
      /\ \A c \in DOMAIN fnRet :
           \E f \in DOMAIN Record : CoercedAs(fnRet[c], Record[f])

(* A record with a sequence of length 1 and a number, both mapped, was
   transformed. *)
C15_Witness ==
    /\ fn = "migration.airtableToGristRecord"
    /\ DOMAIN Record = {"Name", "Age"}
    /\ Record["Name"] = Arr(<<Str("item1")>>)
    /\ Mapping = [Name |-> "full_name", Age |-> "user_age"]
    /\ fnRet = [full_name |-> Str("item1"), user_age |-> Num(25)]

-----------------------------------------------------------------------------
(* C16: unmapped fields dropped, mapped fields kept, in airtableToGristRecord
   of migration.ts.  For every record and mapping the key set of the result
   is { mapping[f] : f is a field of the record and a key of the mapping }:
   a field that is no key of the mapping contributes no key, and every field
   that is a key of the mapping has its coerced value written under the
   column id mapping[f]. *)
C16_KeySet ==
    fn = "migration.airtableToGristRecord" =>
      /\ DOMAIN fnRet = {Mapping[f] : f \in DOMAIN Record \cap DOMAIN Mapping}
      /\ \A f \in DOMAIN Record \cap DOMAIN Mapping :
           CoercedAs(fnRet[Mapping[f]], Record[f])

-----------------------------------------------------------------------------
(* C17: empty mapping.  airtableToGristRecord of migration.ts called with an
   empty mapping returns an empty record, whatever the fields and values of
   the input record. *)
C17_EmptyMapping ==
    (fn = "migration.airtableToGristRecord" /\ DOMAIN Mapping = {}) =>
      DOMAIN fnRet = {}

-----------------------------------------------------------------------------
(* C18: airtableToGristRecord of grist.ts ignores the fields that are not in
   the mapping: the keys of its result are column ids of mapped fields of
   the record (fields Name, Age, Extra with a mapping of Name and Age give
   exactly the two mapped keys), and with an empty mapping the result is
   empty. *)
C18_GristIgnoresUnmapped ==
    fn = "grist.airtableToGristRecord" =>
      /\ DOMAIN fnRet
           \subseteq {Mapping[f] : f \in DOMAIN Record \cap DOMAIN Mapping}
      /\ (DOMAIN Record = {"Name", "Age", "Extra"}
            /\ DOMAIN Mapping = {"Name", "Age"}) =>
           Cardinality(DOMAIN fnRet) = 2
      /\ DOMAIN Mapping = {} => DOMAIN fnRet = {}

-----------------------------------------------------------------------------
(* C19: schema translation shape.  For every source table schema,
   airtableToGristTable returns a table whose id is the source table name
   and whose columns are in the order of the source fields, the j-th column
   having the id of the j-th field (its stable id, not its name) and its
   name as label, together with a mapping in which mapping[field.name] =
   field.id for every field. *)
C19_SchemaShape ==
    fn = "grist.airtableToGristTable" =>
      LET airtableTable == fnArgs.airtableTable
          gristTable == fnRet[1]
          mapping == fnRet[2]
      IN  /\ gristTable.id = airtableTable.name
          /\ Len(gristTable.columns) = Len(airtableTable.fields)
          /\ \A j \in 1 .. Len(airtableTable.fields) :
               /\ gristTable.columns[j].id = airtableTable.fields[j].id
               /\ gristTable.columns[j].fields.label
                    = airtableTable.fields[j].name
               /\ airtableTable.fields[j].name \in DOMAIN mapping
               /\ mapping[airtableTable.fields[j].name]
                    = airtableTable.fields[j].id

-----------------------------------------------------------------------------
(* C20: schema/mapping size.  For every source table schema the keys of the
   mapping returned by airtableToGristTable are names of fields of the
   schema, and the returned table has as many columns as the mapping has
   entries. *)
C20_MappingSize ==
    fn = "grist.airtableToGristTable" =>
      LET airtableTable == fnArgs.airtableTable
          names == {airtableTable.fields[j].name :
                      j \in 1 .. Len(airtableTable.fields)}
      IN  /\ DOMAIN fnRet[2] \subseteq names
          /\ Len(fnRet[1].columns) = Cardinality(DOMAIN fnRet[2])

-----------------------------------------------------------------------------
(* C21: column/mapping correspondence.  For every source table schema and
   every key of the mapping returned by airtableToGristTable, the mapped
   destination column id occurs exactly once among the ids of the returned
   columns. *)
C21_ColumnMappingCorrespondence ==
    fn = "grist.airtableToGristTable" =>
      LET columns == fnRet[1].columns
          mapping == fnRet[2]
      IN  \A field \in DOMAIN mapping :
             Cardinality({j \in DOMAIN columns :
                            columns[j].id = mapping[field]}) = 1

(* A translated table of three fields, one of them named like the id of
   another, with a mapping of three keys. *)
C21_Witness ==
    /\ fn = "grist.airtableToGristTable"
    /\ Len(fnRet[1].columns) = 3
    /\ DOMAIN fnRet[2] = {"Name", "Age", "fldAge"}

-----------------------------------------------------------------------------
(* C22: type translation is total with a text fallback.  For every source
   field airtableToGristFieldType returns a destination type; a known type
   tag gives its entry of the table, an unknown tag gives Text; for the
   multi-choice type the second component carries the names of the choices
   of the field's options in their order, for every other type it is
   null. *)
C22_TypeTranslation ==
    fn = "grist.airtableToGristFieldType" =>
      LET airtableField == fnArgs.airtableField
          type == airtableField.type
      IN  /\ Len(fnRet) = 2
          /\ fnRet[1] \in GristFieldType
          /\ type \in KnownTypes => fnRet[1] = typeMapping(type)
          /\ type \notin KnownTypes => fnRet[1] = "Text"
          /\ type \in {"number", "currency"} => fnRet[1] = "Numeric"
          /\ type = "checkbox" => fnRet[1] = "Bool"
          /\ type = "multipleSelects" =>
               /\ fnRet[1] = "ChoiceList"
               /\ DOMAIN fnRet[2] = {"choices"}
               /\ Len(fnRet[2].choices) = Len(airtableField.options.choices)
               /\ \A c \in DOMAIN airtableField.options.choices :
                     fnRet[2].choices[c]
                       = airtableField.options.choices[c].name
          /\ type # "multipleSelects" => fnRet[2] = Null

(* A multi-choice field of the choices b, a has been translated. *)
C22_Witness ==
    /\ fn = "grist.airtableToGristFieldType"
    /\ fnArgs.airtableField.type = "multipleSelects"
    /\ Len(fnArgs.airtableField.options.choices) = 2
    /\ fnArgs.airtableField.options.choices[1].name = "b"
    /\ fnArgs.airtableField.options.choices[2].name = "a"
    /\ fnRet[2].choices = <<"b", "a">>

-----------------------------------------------------------------------------
(* C23: schema translation determinism.  For every source table schema, two
   calls of airtableToGristTable on it return the same destination schema
   (same id, same columns in the same order) and the same field mapping,
   and no call changes the schema it is given. *)
C23_Determinism ==
    /\ [](fn = "grist.airtableToGristTable" /\ Len(fnRet) = 4 =>
            /\ fnRet[3].id = fnRet[1].id
            /\ Len(fnRet[3].columns) = Len(fnRet[1].columns)
            /\ \A j \in DOMAIN fnRet[1].columns :
                  fnRet[3].columns[j] = fnRet[1].columns[j]
            /\ DOMAIN fnRet[4] = DOMAIN fnRet[2]
            /\ \A field \in DOMAIN fnRet[2] :
                  fnRet[4][field] = fnRet[2][field])
    /\ [][fnArgs' = fnArgs]_vars

(* A schema of three fields, one of the multi-choice type, has been
   translated twice. *)
C23_Witness ==
    /\ fn = "grist.airtableToGristTable"
    /\ Len(fnRet) = 4
    /\ Len(fnArgs.airtableTable.fields) = 3
    /\ \E j \in 1 .. 3 : fnRet[3].columns[j].fields.type = "ChoiceList"

-----------------------------------------------------------------------------
(* C24: single table-creation call with positional pairing.  In every run
   that gets past schema fetching addTablesToDocument is called exactly
   once, after all schema fetches have completed, with the container id
   createDocument returned and the translated schemas in the order of
   source.tableIds; in the migrating phase table i is read from the i-th
   source table and written to the i-th returned destination table id of
   that container, using the field mapping translated from the i-th fetched
   schema. *)
SchemasFetched == SelectSeq(log, LAMBDA e : IsSuccess(e, {"getTableSchema"}))

TableCreations == Positions(LAMBDA e : IsCall(e, {"addTablesToDocument"}))

PastSchemaFetching ==
    /\ PhaseOf(pc) >= 3
    /\ Positions(LAMBDA e : IsFailure(e, {"createDocument", "getTableSchema"}))
         = {}

C24_SingleTableCreation ==
    pc # "none" =>
      /\ Cardinality(TableCreations) <= 1
      /\ PastSchemaFetching => Cardinality(TableCreations) = 1
      /\ \A p \in TableCreations :
           /\ Len(SchemasFetched) = totalTables
           /\ \A q \in 1 .. Len(log) :
                 (log[q].kind # "event" /\ log[q].op = "getTableSchema")
                   => q < p
           /\ SettledBefore(p)
           /\ log[p].args.documentId = ResolvedWith("createDocument").documentId
           /\ Len(log[p].args.tables) = totalTables
           /\ \A j \in 1 .. totalTables :
                 log[p].args.tables[j]
                   = airtableToGristTable(SchemasFetched[j].value.tableSchema)[1]
      /\ IsPrefixOfJob(CallsOf("getTableSchema"))
      /\ \A p \in 1 .. Len(log) :
           /\ IsCall(log[p], {"getAllRecords"}) =>
                /\ log[p].args.baseId = source.baseId
                /\ log[p].args.tableId = source.tableIds[TableAt(p)]
           /\ IsCall(log[p], {"addRecordsToTable"}) =>
                /\ log[p].args.documentId
                     = ResolvedWith("createDocument").documentId
                /\ log[p].args.tableId
                     = ResolvedWith("addTablesToDocument").tableIds[TableAt(p)]
      /\ pc = "migrateTable" =>
           /\ TableAt(Len(log)) = i
           /\ mt.source.tableId = source.tableIds[i]
           /\ mt.destination.documentId
                = ResolvedWith("createDocument").documentId
           /\ mt.destination.tableId
                = ResolvedWith("addTablesToDocument").tableIds[i]
           /\ mt.mapping
                = airtableToGristTable(SchemasFetched[i].value.tableSchema)[2]

(* The second of three distinct tables is being written to the second
   destination table. *)
C24_Witness ==
    /\ pc = "migrateTable"
    /\ source.tableIds = <<1, 2, 3>>
    /\ i = 2
    /\ IsCall(log[Len(log)], {"addRecordsToTable"})
    /\ log[Len(log)].args.tableId = DestTableId(2)
    /\ mt.mapping["Num"] = "fldNum2"

-----------------------------------------------------------------------------
(* C25: runs do not share state.  When two runs of migrateTables are
   interleaved, the result of each resolved run is what its own service
   responses determine, as if it had run alone: tableIds is the list its
   addTablesToDocument call resolved with minus the tables of which one of
   its own calls rejected, errors is the list of the values its own calls
   rejected with, in order, and no error of the other run is in it. *)
OwnRejections ==
    LET failures == SelectSeq(log, LAMBDA e : IsFailure(e, TableOps))
    IN  [j \in 1 .. Len(failures) |-> failures[j].value]

C25_RunsIsolated ==
    (suspended.pc # "none" /\ outcome.state = "fulfilled") =>
      /\ outcome.value.tableIds
           = Keep(ResolvedWith("addTablesToDocument").tableIds, FailedTables,
                  totalTables)
      /\ outcome.value.errors = OwnRejections
      /\ \A a \in 1 .. Len(outcome.value.errors) :
           \A b \in 1 .. Len(suspended.errors) :
              outcome.value.errors[a] # suspended.errors[b]

(* A run of two tables resolved with its second table failed, while the
   other run, of one table, recorded a failure of its own before the first
   run's and migrated nothing. *)
C25_Witness ==
    /\ outcome.state = "fulfilled"
    /\ totalTables = 2
    /\ outcome.value.tableIds = <<DestTableId(1)>>
    /\ Len(outcome.value.errors) = 1
    /\ suspended.pc = "resolved"
    /\ Len(suspended.errors) = 1
    /\ suspended.errors[1].id < outcome.value.errors[1].id

-----------------------------------------------------------------------------
(* C26: progress events precede the work they announce.  With a progress
   callback, the event reported last before createDocument is issued is the
   first creating event; before the first getTableSchema, the fetching
   event; before addTablesToDocument, the second creating event; before
   getAllRecords of table t, the migrating event of table t; and the
   complete event is reported only after every call of the run has
   settled, the last table's included. *)
EventsBefore(p, status) ==
    Cardinality({q \in 1 .. p - 1 : IsEvent(log[q], status)})

C26_EventsPrecedeCalls ==
    (pc # "none" /\ onProgress) =>
      \A p \in 1 .. Len(log) :
         /\ IsCall(log[p], {"createDocument"}) =>
              /\ p = 2
              /\ IsEvent(log[p - 1], "creating")
         /\ (IsCall(log[p], {"getTableSchema"})
               /\ \A q \in 1 .. p - 1 : ~IsCall(log[q], {"getTableSchema"})) =>
              /\ IsEvent(log[p - 1], "fetching")
              /\ IsSuccess(log[p - 2], {"createDocument"})
         /\ IsCall(log[p], {"addTablesToDocument"}) =>
              /\ IsEvent(log[p - 1], "creating")
              /\ EventsBefore(p, "creating") = 2
              /\ EventsBefore(p, "fetching") = 1
         /\ IsCall(log[p], {"getAllRecords"}) =>
              /\ IsEvent(log[p - 1], "migrating")
              /\ log[p - 1].currentTable = TableAt(p)
              /\ EventsBefore(p, "migrating") = TableAt(p)
         /\ IsEvent(log[p], "complete") =>
              /\ p = Len(log)
              /\ outstanding = 0
              /\ Cardinality(Positions(LAMBDA e : e.kind = "call"))
                   = Cardinality(Positions(LAMBDA e : e.kind = "settle"))
              /\ TableAt(p) = totalTables
              /\ \A q \in 1 .. p - 1 : ~IsEvent(log[q], "complete")

(* A run of three tables reported complete after the insert of its last
   table settled. *)
C26_Witness ==
    /\ onProgress
    /\ totalTables = 3
    /\ pc = "resolved"
    /\ IsEvent(log[Len(log)], "complete")
    /\ log[Len(log) - 1].kind = "settle"
    /\ log[Len(log) - 1].op = "addRecordsToTable"

-----------------------------------------------------------------------------
(* C27: fatal error event shape.  In every run of migrateTables that
   rejects, exactly one event with status error is reported to the progress
   callback; it has currentTable 0, carries the very error the run rejects
   with, is the last event of the run, and no complete event is reported.
   A run without a callback reports nothing. *)
ErrorEvents == Positions(LAMBDA e : IsEvent(e, "error"))

C27_FatalErrorEvent ==
    pc = "rejected" =>
      /\ outcome.state = "rejected"
      /\ Positions(LAMBDA e : IsEvent(e, "complete")) = {}
      /\ onProgress =>
           /\ Cardinality(ErrorEvents) = 1
           /\ \A p \in ErrorEvents :
                 /\ log[p].currentTable = 0
                 /\ log[p].error = outcome.reason
                 /\ p = Len(log)
      /\ ~onProgress => ErrorEvents = {}

(* A run of three tables rejected at the fetch of its third schema and
   reported the error after the fetching event. *)
C27_Witness ==
    /\ pc = "rejected"
    /\ onProgress
    /\ totalTables = 3
    /\ Len(SchemasFetched) = 2
    /\ IsEvent(log[Len(log)], "error")
    /\ IsFailure(log[Len(log) - 1], {"getTableSchema"})

-----------------------------------------------------------------------------
(* C28: accounting of the migrating phase.  Once the orchestrator has
   finished t of its n tables, length(tableIds) + length(errors) = t; in
   every resolved run the two lengths add up to n; and each finished table
   counts in exactly one list: its destination id is in tableIds if none of
   its calls rejected, and otherwise one error stands for it. *)
Finished == i - 1

C28_Accounting ==
    /\ pc \in {"migrating", "migrateTable"} =>
         /\ Finished \in 0 .. totalTables
         /\ Len(tableIds) + Len(errors) = Finished
         /\ \A t \in 1 .. Finished :
               (t \in FailedTables)
                 = (\A j \in 1 .. Len(tableIds) :
                       tableIds[j] # createdTableIds[t])
         /\ Len(errors) = Cardinality(FailedTables \cap 1 .. Finished)
    /\ pc = "resolved" =>
         /\ Finished = totalTables
         /\ Len(outcome.value.tableIds) + Len(outcome.value.errors)
              = totalTables
         /\ Len(outcome.value.errors) = Cardinality(FailedTables)

(* Two of three tables are finished, one migrated and one failed, and the
   third is under way. *)
C28_Witness ==
    /\ pc = "migrateTable"
    /\ totalTables = 3
    /\ i = 3
    /\ Len(tableIds) = 1
    /\ Len(errors) = 1

-----------------------------------------------------------------------------
(* C29: errors and error events correspond one to one.  In every resolved
   run with a progress callback there are as many error events as entries
   of errors; the j-th error event carries the j-th entry, has currentTable
   equal to the index + 1 of the table that failed, lies after that table's
   migrating event and before the next table's, and the failed tables
   appear in errors in source order. *)
ErrorEventsInOrder == SelectSeq(log, LAMBDA e : IsEvent(e, "error"))

C29_ErrorsMatchEvents ==
    (pc = "resolved" /\ onProgress) =>
      /\ Len(ErrorEventsInOrder) = Len(outcome.value.errors)
      /\ \A j \in 1 .. Len(ErrorEventsInOrder) :
           /\ ErrorEventsInOrder[j].error = outcome.value.errors[j]
           /\ ErrorEventsInOrder[j].currentTable \in FailedTables
           /\ j > 1 => ErrorEventsInOrder[j - 1].currentTable
                         < ErrorEventsInOrder[j].currentTable
      /\ {ErrorEventsInOrder[j].currentTable :
            j \in 1 .. Len(ErrorEventsInOrder)} = FailedTables
      /\ \A p \in ErrorEvents :
           /\ EventsBefore(p, "migrating") = log[p].currentTable
           /\ \E q \in 1 .. p - 1 :
                 /\ IsEvent(log[q], "migrating")
                 /\ log[q].currentTable = log[p].currentTable
                 /\ \E r \in q + 1 .. p - 1 :
                       /\ IsFailure(log[r], TableOps)
                       /\ log[r].value = log[p].error

(* A resolved run of three tables whose first and third table failed. *)
C29_Witness ==
    /\ pc = "resolved"
    /\ onProgress
    /\ totalTables = 3
    /\ Len(ErrorEventsInOrder) = 2
    /\ ErrorEventsInOrder[1].currentTable = 1
    /\ ErrorEventsInOrder[2].currentTable = 3
    /\ ErrorEventsInOrder[2].error = outcome.value.errors[2]

-----------------------------------------------------------------------------
(* C30: progress counters stay in range.  Every progress event of
   migrateTables has totalTables equal to the number of source table ids
   and 0 <= currentTable <= totalTables; currentTable is 0 in every
   creating and fetching event and in every event reported before the
   first migrating event; and over the events of a resolved run
   currentTable never decreases. *)
C30_CountersInRange ==
    pc # "none" =>
      /\ \A p \in 1 .. Len(log) :
           log[p].kind = "event" =>
             /\ log[p].totalTables = Len(source.tableIds)
             /\ log[p].currentTable \in 0 .. Len(source.tableIds)
             /\ log[p].status \in {"creating", "fetching"} =>
                  log[p].currentTable = 0
             /\ (log[p].status # "migrating"
                   /\ EventsBefore(p, "migrating") = 0) =>
                  log[p].currentTable = 0
      /\ pc = "resolved" =>
           \A p, q \in 1 .. Len(log) :
              (p < q /\ log[p].kind = "event" /\ log[q].kind = "event") =>
                log[p].currentTable <= log[q].currentTable

(* A resolved run of three tables whose second table failed: the counters
   read 0, 0, 0, 1, 2, 2, 3, 3. *)
C30_Witness ==
    /\ pc = "resolved"
    /\ onProgress
    /\ totalTables = 3
    /\ [j \in 1 .. Len(Events) |-> Events[j].currentTable]
         = <<0, 0, 0, 1, 2, 2, 3, 3>>

-----------------------------------------------------------------------------
(* C31: the table name in progress events is that of the table being
   migrated.  For every table position t, the tableName of the migrating
   event and of the error event with currentTable t is the name of the
   schema that was fetched for the t-th entry of source.tableIds, the one
   whose translation gave the t-th mapping, also when source.tableIds holds
   the same id more than once. *)
C31_TableNameMatches ==
    pc # "none" =>
      \A p \in 1 .. Len(log) :
         (log[p].kind = "event" /\ log[p].currentTable >= 1
            /\ log[p].status \in {"migrating", "error"}) =>
           log[p].tableName
             = SchemasFetched[log[p].currentTable].value.tableSchema.name

-----------------------------------------------------------------------------
(* C32: the progress sink does not influence the migration.  Compare a run
   with a callback that returns normally and a run of the same job without
   one.  As long as the services have answered both alike, both issue the
   same call with the same arguments next; and when the services answered
   alike throughout, both end alike: resolved with the same documentId and
   tableIds and with errors that are the rejections received, or rejected
   with the rejection received. *)
ServiceTrace(lg) == SelectSeq(lg, LAMBDA e : e.kind # "event")

(* Two entries of service traces are the same call, or the same answer
   (Error objects compared by what they say, every run receiving its own). *)
SameEntry(x, y) ==
    /\ x.kind = y.kind
    /\ x.op = y.op
    /\ IF x.kind = "call" THEN x.args = y.args
       ELSE /\ x.ok = y.ok
            /\ IF x.ok THEN x.value = y.value
               ELSE x.value.msg = y.value.msg

Agree(a, b, n) == \A q \in 1 .. n : SameEntry(a[q], b[q])

SameOutcome(x, y) ==
    /\ x.state = y.state
    /\ x.state = "fulfilled" =>
         /\ x.value.documentId = y.value.documentId
         /\ x.value.tableIds = y.value.tableIds
         /\ Len(x.value.errors) = Len(y.value.errors)
         /\ \A j \in 1 .. Len(x.value.errors) :
               x.value.errors[j].msg = y.value.errors[j].msg
    /\ x.state = "rejected" => x.reason.msg = y.reason.msg

C32_SinkHasNoInfluence ==
    (suspended.pc \in {"resolved", "rejected"}
       /\ suspended.onProgress /\ ~onProgress) =>
      LET with == ServiceTrace(suspended.log)
          without == ServiceTrace(log)
      IN  /\ \A p \in 1 .. Min(Len(with), Len(without)) :
                Agree(with, without, p - 1) =>
                  /\ with[p].kind = without[p].kind
                  /\ with[p].op = without[p].op
                  /\ with[p].kind = "call" => with[p].args = without[p].args
          /\ (Len(with) <= Len(without) /\ Agree(with, without, Len(with))) =>
                /\ Len(without) = Len(with)
                /\ pc \in {"resolved", "rejected"} =>
                     SameOutcome(suspended.outcome, outcome)
          /\ outcome.state = "fulfilled" =>
                outcome.value.errors = OwnRejections
          /\ outcome.state = "rejected" =>
                outcome.reason = log[Len(log)].value

(* Both runs of a job of two tables got the same answers, the second table
   failing at its insert, and both resolved. *)
C32_Witness ==
    /\ suspended.pc = "resolved"
    /\ suspended.onProgress
    /\ ~onProgress
    /\ pc = "resolved"
    /\ totalTables = 2
    /\ Len(ServiceTrace(log)) = Len(ServiceTrace(suspended.log))
    /\ Agree(ServiceTrace(suspended.log), ServiceTrace(log),
             Len(ServiceTrace(log)))
    /\ Len(outcome.value.errors) = 1
    /\ outcome.value.tableIds = <<DestTableId(1)>>
    /\ Len(suspended.log) > Len(log)

-----------------------------------------------------------------------------
(* C33: the two record transformers agree on their common domain.  For
   every record all of whose fields are keys of the mapping, with non-empty
   column ids, and none of whose values is a sequence of length 1,
   airtableToGristRecord of migration.ts and airtableToGristRecord of
   grist.ts return the same record: the same keys, each with the same
   value. *)
CommonDomain ==
    /\ DOMAIN Record \subseteq DOMAIN Mapping
    /\ \A f \in DOMAIN Record :
         /\ Mapping[f] # ""
         /\ ~(Record[f].jstype = "array" /\ Len(Record[f].val) = 1)

C33_TransformersAgree ==
    (fn = "both.airtableToGristRecord" /\ CommonDomain) =>
      /\ DOMAIN fnRet[1] = DOMAIN fnRet[2]
      /\ \A column \in DOMAIN fnRet[1] :
           SameValue(fnRet[1][column], fnRet[2][column])

(* Both transformers were given a record of a string and a sequence of two
   elements, both fields mapped. *)
C33_Witness ==
    /\ fn = "both.airtableToGristRecord"
    /\ CommonDomain
    /\ DOMAIN Record = {"Name", "Age"}
    /\ Record["Name"].jstype = "array"
    /\ Len(Record["Name"].val) = 2
    /\ fnRet[2]["full_name"].val[1] = Str("L")
    /\ Len(fnRet[1]["full_name"].val) = 3

-----------------------------------------------------------------------------
(* C34: the wizard's completion gate.  A call of handleStartMigration
   reaches migrateTables only with at least one table and a workspace
   selected, and passes that selection on; currentStep becomes 5 only in
   the step that continues the call after its run has resolved, and that
   step leaves the run's documentId in createdDocumentId; the step that
   ends a call whose run has resolved or rejected leaves isImporting
   false. *)

(* A run of migrateTables is entered in this step. *)
MigrateTablesCalled == Migrations' > Migrations

(* The call of handleStartMigration whose run has settled ends in this
   step. *)
CallEnds == pc \in {"resolved", "rejected"} /\ pc' = "none"

C34_WizardGate ==
    /\ [](\A c \in 1 .. Len(wizardLog) :
            /\ ~wizardLog[c].isImporting
            /\ wizardLog[c].outcome = "fulfilled" =>
                 wizardLog[c].createdDocumentId = wizardLog[c].documentId)
    /\ [][/\ MigrateTablesCalled =>
              /\ Len(wizard.selectedTables) >= 1
              /\ Truthy(wizard.selectedWorkspace)
              /\ source'.tableIds = wizard.selectedTables
              /\ destination'.workspaceId = wizard.selectedWorkspace.val
          /\ (wizard'.currentStep = 5 /\ wizard.currentStep # 5) =>
              /\ pc = "resolved"
              /\ CallEnds
              /\ wizard'.createdDocumentId = outcome.value.documentId
          /\ CallEnds => ~wizard'.isImporting]_vars

(* One call has ended with a rejected run and a later one with a resolved
   run, which brought the wizard to step 5 with the document's id. *)
C34_Witness ==
    /\ Len(wizardLog) = 2
    /\ wizardLog[1].outcome = "rejected"
    /\ wizardLog[2].outcome = "fulfilled"
    /\ wizard.currentStep = 5
    /\ wizard.createdDocumentId = "doc123"
    /\ ~wizard.isImporting


====
